---- MODULE Spec2Model ----
(***************************************************************************)
(* A model of nina_mqtt_bridge: the Scheduler (scheduler.py), the Bridge   *)
(* with its publish queue, publisher thread, discovery record and command  *)
(* handler (bridge.py), and the parts of NINAClient (nina_client.py),      *)
(* discovery.py and device_model.py the Bridge calls.                      *)
(*                                                                         *)
(* Time is counted in ticks of 0.05 s, the smallest delay the scheduler    *)
(* loop uses; one second is 20 ticks.                                      *)
(***************************************************************************)
EXTENDS Integers, Sequences, FiniteSets, TLC

\* ------------------------------------------------------------------ bounds

\* The monotonic clock stops advancing here.
MaxTime == 60

\* Tasks a caller registers with a stand-alone Scheduler.
MaxTasks == 2

\* Calls of Bridge.stop() (signals delivered) in one run.
MaxStops == 1

\* Inbound command messages in one run.
MaxCmds == 1

\* ------------------------------------------------------- program constants

\* scheduler.py:67  max(due_in, 0.05): one tick.
Floor == 1

\* scheduler.py:59  next_delay = 1.0: twenty ticks.
Ceiling == 20

\* config.py:35  DEFAULT_REFRESH_SECONDS = 60
DEFAULT_REFRESH_SECONDS == 60

Seconds(n) == n * Ceiling

Min(a, b) == IF a <= b THEN a ELSE b

Max(a, b) == IF a >= b THEN a ELSE b

Range(s) == {s[i] : i \in DOMAIN s}

\* ------------------------------------------------- configuration (config.py)

\* config.py DEFAULT_DEVICE_TYPES, in the order _build_devices inserts them.
DEFAULT_DEVICE_TYPES ==
    <<"application", "camera", "mount", "dome", "filterwheel", "flatdevice",
      "focuser", "guider", "rotator", "safetymonitor", "sequence", "switch",
      "weather", "livestack", "most_recent_image", "screenshot">>

\* The device kinds a modelled configuration enables or disables; every
\* other kind is configured enabled=false.
Devices == {"sequence", "screenshot"}

\* MQTTTopicConfig.base_topic and discovery_prefix (the defaults).
base_topic == "nina"

discovery_prefix == "homeassistant"

\* A topic is the sequence of its levels: "nina/mount/command" is
\* <<"nina", "mount", "command">>.

\* MQTTTopicConfig.render_availability_topic: device or "bridge".
render_availability_topic(device) ==
    <<base_topic, IF device = "" THEN "bridge" ELSE device, "availability">>

render_device_availability_topic(device) == render_availability_topic(device)

\* MQTTTopicConfig.render_command_topic with the default template.
render_command_topic(device) == <<base_topic, device, "command">>

\* MQTTTopicConfig.render_command_error_topic with the default template.
render_command_error_topic(device) == <<base_topic, device, "command", "error">>

\* discovery.py STATE_TOPIC_TEMPLATE and IMAGE_TOPIC_TEMPLATE.
STATE_TOPIC_TEMPLATE(base, device, variable) == <<base, device, variable>>

IMAGE_TOPIC_TEMPLATE(base, device) == <<base, device, "image">>

\* nina_client.py DEVICE_ENDPOINTS and IMAGE_ENDPOINTS (their keys).
DEVICE_ENDPOINTS ==
    {"application", "camera", "mount", "dome", "filterwheel", "flatdevice",
     "focuser", "guider", "rotator", "safetymonitor", "sequence", "switch",
     "weather"}

IMAGE_ENDPOINTS == {"most_recent_image", "livestack", "screenshot"}

\* discovery.py IMAGE_DEVICES.
IMAGE_DEVICES == {"livestack", "most_recent_image", "screenshot"}

\* PublishMessage(topic, payload, retain, qos).
PublishMessage(topic, payload, retain, qos) ==
    [topic |-> topic, payload |-> payload, retain |-> retain, qos |-> qos]

\* Payloads are tagged by what they carry.
Text(s) == [s |-> s, t |-> "text"]

\* ------------------------------------------- values of an API response (JSON)

None_ == [t |-> "none"]

Str(s) == [s |-> s, t |-> "str"]

\* A number, in tenths: Num(-105) is -10.5.
Num(n) == [n |-> n, t |-> "num"]

\* A Python int.
PyInt(i) == [i |-> i, t |-> "int"]

Bool(b) == [b |-> b, t |-> "bool"]

\* A dict keeps its items in insertion order: <<[k |-> key, v |-> value]>>.
Dict(items) == [t |-> "dict", items |-> items]

List(elems) == [t |-> "list", elems |-> elems]

Item(k, v) == [k |-> k, v |-> v]

\* Python truth value of a response value (`x or y`, `if x`).
Truthy(v) ==
    CASE v.t = "none" -> FALSE
      [] v.t = "str"  -> v.s /= ""
      [] v.t = "num"  -> v.n /= 0
      [] v.t = "int"  -> v.i /= 0
      [] v.t = "bool" -> v.b
      [] v.t = "dict" -> v.items /= <<>>
      [] v.t = "list" -> v.elems /= <<>>

\* dict operations on the ordered items.
DictHas(items, k) == \E i \in DOMAIN items : items[i].k = k

DictGet(items, k) == items[CHOOSE i \in DOMAIN items : items[i].k = k].v

\* d[k] = v: an existing key keeps its position.
DictSet(items, k, v) ==
    IF DictHas(items, k)
    THEN [i \in DOMAIN items |-> IF items[i].k = k THEN Item(k, v) ELSE items[i]]
    ELSE Append(items, Item(k, v))

DictKeys(items) == [i \in DOMAIN items |-> items[i].k]

\* ----------------------------------------------------- device_model.py

\* The characters of the keys the model uses ("Name" is <<"N","a","m","e">>).
Spell(key) ==
    CASE key = "status"      -> <<"s", "t", "a", "t", "u", "s">>
      [] key = "Status"      -> <<"S", "t", "a", "t", "u", "s">>
      [] key = "name"        -> <<"n", "a", "m", "e">>
      [] key = "Name"        -> <<"N", "a", "m", "e">>
      [] key = "Response"    -> <<"R", "e", "s", "p", "o", "n", "s", "e">>
      [] key = "StatusCode"  -> <<"S", "t", "a", "t", "u", "s", "C", "o", "d", "e">>
      [] key = "Success"     -> <<"S", "u", "c", "c", "e", "s", "s">>
      [] key = ""            -> <<>>
      [] key = "park"        -> <<"p", "a", "r", "k">>
      [] key = "PARK"        -> <<"P", "A", "R", "K">>
      [] key = "home"        -> <<"h", "o", "m", "e">>
      [] key = "unpark"      -> <<"u", "n", "p", "a", "r", "k">>
      [] key = "tracking"    -> <<"t", "r", "a", "c", "k", "i", "n", "g">>
      [] key = "track"       -> <<"t", "r", "a", "c", "k">>
      [] key = "set_tracking" ->
             <<"s", "e", "t", "_", "t", "r", "a", "c", "k", "i", "n", "g">>
      [] key = "start"       -> <<"s", "t", "a", "r", "t">>
      [] key = "stop"        -> <<"s", "t", "o", "p">>
      [] key = "reset"       -> <<"r", "e", "s", "e", "t">>
      [] key = "restart"     -> <<"r", "e", "s", "t", "a", "r", "t">>
      [] key = "warp"        -> <<"w", "a", "r", "p">>
      [] key = "lunar"       -> <<"l", "u", "n", "a", "r">>
      [] key = "Lunar"       -> <<"L", "u", "n", "a", "r">>
      [] key = "fast"        -> <<"f", "a", "s", "t">>
      [] key = "target_temp" ->
             <<"t", "a", "r", "g", "e", "t", "_", "t", "e", "m", "p">>
      [] key = "TargetTemp" ->
             <<"T", "a", "r", "g", "e", "t", "T", "e", "m", "p">>
      [] key = "temperature" ->
             <<"t", "e", "m", "p", "e", "r", "a", "t", "u", "r", "e">>
      [] key = "Temperature" ->
             <<"T", "e", "m", "p", "e", "r", "a", "t", "u", "r", "e">>
      [] key = "gain" ->
             <<"g", "a", "i", "n">>
      [] key = "binx" ->
             <<"b", "i", "n", "x">>
      [] key = "biny" ->
             <<"b", "i", "n", "y">>
      [] key = "bitdepth" ->
             <<"b", "i", "t", "d", "e", "p", "t", "h">>
      [] key = "offset" ->
             <<"o", "f", "f", "s", "e", "t">>
      [] key = "cooler_on" ->
             <<"c", "o", "o", "l", "e", "r", "_", "o", "n">>
      [] key = "cooler_power" ->
             <<"c", "o", "o", "l", "e", "r", "_", "p", "o", "w", "e", "r">>
      [] key = "dewheater_on" ->
             <<"d", "e", "w", "h", "e", "a", "t", "e", "r", "_", "o", "n">>
      [] key = "is_exposing" ->
             <<"i", "s", "_", "e", "x", "p", "o", "s", "i", "n", "g">>
      [] key = "display_name" ->
             <<"d", "i", "s", "p", "l", "a", "y", "_", "n", "a", "m", "e">>
      [] key = "connected" ->
             <<"c", "o", "n", "n", "e", "c", "t", "e", "d">>
      [] key = "Connected" ->
             <<"C", "o", "n", "n", "e", "c", "t", "e", "d">>
      [] key = "displayname" ->
             <<"d", "i", "s", "p", "l", "a", "y", "n", "a", "m", "e">>
      [] key = "Cooler" ->
             <<"C", "o", "o", "l", "e", "r">>
      [] key = "On" ->
             <<"O", "n">>
      [] key = "ReadonlySwitches" ->
             <<"R", "e", "a", "d", "o", "n", "l", "y", "S", "w", "i", "t", "c", "h", "e", "s">>
      [] key = "WriteableSwitches" ->
             <<"W", "r", "i", "t", "e", "a", "b", "l", "e", "S", "w", "i", "t", "c", "h", "e", "s">>
      [] key = "Error" ->
             <<"E", "r", "r", "o", "r">>
      [] key = "x" ->
             <<"x">>
      [] key = "tracking_mode" ->
             <<"t", "r", "a", "c", "k", "i", "n", "g", "_", "m", "o", "d", "e">>
      [] key = "sidereal_time" ->
             <<"s", "i", "d", "e", "r", "e", "a", "l", "_", "t", "i", "m", "e">>
      [] key = "right_ascension" ->
             <<"r", "i", "g", "h", "t", "_", "a", "s", "c", "e", "n", "s", "i", "o", "n">>
      [] key = "declination" ->
             <<"d", "e", "c", "l", "i", "n", "a", "t", "i", "o", "n">>
      [] key = "site_latitude" ->
             <<"s", "i", "t", "e", "_", "l", "a", "t", "i", "t", "u", "d", "e">>
      [] key = "site_longitude" ->
             <<"s", "i", "t", "e", "_", "l", "o", "n", "g", "i", "t", "u", "d", "e">>
      [] key = "site_elevation" ->
             <<"s", "i", "t", "e", "_", "e", "l", "e", "v", "a", "t", "i", "o", "n">>
      [] key = "right_ascension_string" ->
             <<"r", "i", "g", "h", "t", "_", "a", "s", "c", "e", "n", "s", "i", "o", "n", "_", "s", "t", "r", "i", "n", "g">>
      [] key = "declination_string" ->
             <<"d", "e", "c", "l", "i", "n", "a", "t", "i", "o", "n", "_", "s", "t", "r", "i", "n", "g">>
      [] key = "time_to_flip" ->
             <<"t", "i", "m", "e", "_", "t", "o", "_", "f", "l", "i", "p">>
      [] key = "TimeToMeridianFlip" ->
             <<"T", "i", "m", "e", "T", "o", "M", "e", "r", "i", "d", "i", "a", "n", "F", "l", "i", "p">>
      [] key = "side_of_pier" ->
             <<"s", "i", "d", "e", "_", "o", "f", "_", "p", "i", "e", "r">>
      [] key = "altitude" ->
             <<"a", "l", "t", "i", "t", "u", "d", "e">>
      [] key = "azimuth" ->
             <<"a", "z", "i", "m", "u", "t", "h">>
      [] key = "sidereal_time_string" ->
             <<"s", "i", "d", "e", "r", "e", "a", "l", "_", "t", "i", "m", "e", "_", "s", "t", "r", "i", "n", "g">>
      [] key = "hours_to_meridian" ->
             <<"h", "o", "u", "r", "s", "_", "t", "o", "_", "m", "e", "r", "i", "d", "i", "a", "n">>
      [] key = "HoursToMeridianString" ->
             <<"H", "o", "u", "r", "s", "T", "o", "M", "e", "r", "i", "d", "i", "a", "n", "S", "t", "r", "i", "n", "g">>
      [] key = "at_park" ->
             <<"a", "t", "_", "p", "a", "r", "k">>
      [] key = "at_home" ->
             <<"a", "t", "_", "h", "o", "m", "e">>
      [] key = "tracking_enabled" ->
             <<"t", "r", "a", "c", "k", "i", "n", "g", "_", "e", "n", "a", "b", "l", "e", "d">>
      [] key = "slewing" ->
             <<"s", "l", "e", "w", "i", "n", "g">>
      [] key = "time_to_flip_string" ->
             <<"t", "i", "m", "e", "_", "t", "o", "_", "f", "l", "i", "p", "_", "s", "t", "r", "i", "n", "g">>
      [] key = "TimeToMeridianFlipString" ->
             <<"T", "i", "m", "e", "T", "o", "M", "e", "r", "i", "d", "i", "a", "n", "F", "l", "i", "p", "S", "t", "r", "i", "n", "g">>
      [] key = "is_pulse_guiding" ->
             <<"i", "s", "_", "p", "u", "l", "s", "e", "_", "g", "u", "i", "d", "i", "n", "g">>
      [] key = "utc_date" ->
             <<"u", "t", "c", "_", "d", "a", "t", "e">>
      [] key = "HoursToMeridian" ->
             <<"H", "o", "u", "r", "s", "T", "o", "M", "e", "r", "i", "d", "i", "a", "n">>
      [] key = "Id" ->
             <<"I", "d">>
      [] key = "Value" ->
             <<"V", "a", "l", "u", "e">>
      [] key = "Description" ->
             <<"D", "e", "s", "c", "r", "i", "p", "t", "i", "o", "n">>

UpperCase ==
    <<"A", "B", "C", "D", "E", "F", "G", "H", "I", "J", "K", "L", "M",
      "N", "O", "P", "Q", "R", "S", "T", "U", "V", "W", "X", "Y", "Z">>

LowerCase ==
    <<"a", "b", "c", "d", "e", "f", "g", "h", "i", "j", "k", "l", "m",
      "n", "o", "p", "q", "r", "s", "t", "u", "v", "w", "x", "y", "z">>

Digits == {"0", "1", "2", "3", "4", "5", "6", "7", "8", "9"}

\* str.lower() of one character.
Lower(ch) ==
    IF \E i \in DOMAIN UpperCase : UpperCase[i] = ch
    THEN LowerCase[CHOOSE i \in DOMAIN UpperCase : UpperCase[i] = ch]
    ELSE ch

\* str.isalnum() of one (lower-cased) character.
IsAlnum(ch) == ch \in Range(LowerCase) \cup Range(UpperCase) \cup Digits

\* _normalize(key), on the characters of the key.
_normalize(chars) ==
    SelectSeq([i \in DOMAIN chars |-> Lower(chars[i])], IsAlnum)

\* The characters of f"{key}_{inner_key}".
Joined(key, inner_key) == Spell(key) \o <<"_">> \o Spell(inner_key)

\* SensorDef: the fields extraction and discovery read.
SensorDef(var, source, platform) ==
    [var |-> var, source |-> source, platform |-> platform]

\* The keys of DEVICE_SENSORS.
SENSOR_DEVICES ==
    {"application", "camera", "dome", "filterwheel", "flatdevice", "focuser",
     "guider", "mount", "rotator", "safetymonitor", "sequence", "switch",
     "weather"}

\* DEVICE_SENSORS[device].items() for the device kinds the model extracts
\* values of.
DEVICE_SENSORS(device) ==
    CASE device = "camera" ->
           <<SensorDef("target_temp", <<"TargetTemp">>, "sensor"),
             SensorDef("temperature", <<>>, "sensor"),
             SensorDef("gain", <<>>, "sensor"),
             SensorDef("binx", <<>>, "sensor"),
             SensorDef("biny", <<>>, "sensor"),
             SensorDef("bitdepth", <<>>, "sensor"),
             SensorDef("offset", <<>>, "sensor"),
             SensorDef("cooler_on", <<>>, "binary_sensor"),
             SensorDef("cooler_power", <<>>, "sensor"),
             SensorDef("dewheater_on", <<>>, "binary_sensor"),
             SensorDef("is_exposing", <<>>, "binary_sensor"),
             SensorDef("name", <<>>, "sensor"),
             SensorDef("display_name", <<>>, "sensor"),
             SensorDef("connected", <<>>, "binary_sensor")>>
      [] device = "mount" ->
           <<SensorDef("tracking_mode", <<>>, "sensor"),
             SensorDef("sidereal_time", <<>>, "sensor"),
             SensorDef("right_ascension", <<>>, "sensor"),
             SensorDef("declination", <<>>, "sensor"),
             SensorDef("site_latitude", <<>>, "sensor"),
             SensorDef("site_longitude", <<>>, "sensor"),
             SensorDef("site_elevation", <<>>, "sensor"),
             SensorDef("right_ascension_string", <<>>, "sensor"),
             SensorDef("declination_string", <<>>, "sensor"),
             SensorDef("time_to_flip", <<"TimeToMeridianFlip">>, "sensor"),
             SensorDef("side_of_pier", <<>>, "sensor"),
             SensorDef("altitude", <<>>, "sensor"),
             SensorDef("azimuth", <<>>, "sensor"),
             SensorDef("sidereal_time_string", <<>>, "sensor"),
             SensorDef("hours_to_meridian", <<"HoursToMeridianString">>, "sensor"),
             SensorDef("at_park", <<>>, "binary_sensor"),
             SensorDef("at_home", <<>>, "binary_sensor"),
             SensorDef("tracking_enabled", <<>>, "binary_sensor"),
             SensorDef("slewing", <<>>, "binary_sensor"),
             SensorDef("time_to_flip_string", <<"TimeToMeridianFlipString">>, "sensor"),
             SensorDef("is_pulse_guiding", <<>>, "binary_sensor"),
             SensorDef("connected", <<>>, "binary_sensor"),
             SensorDef("utc_date", <<>>, "sensor"),
             SensorDef("name", <<>>, "sensor"),
             SensorDef("displayname", <<>>, "sensor")>>
      [] device = "sequence" ->
           <<SensorDef("status", <<>>, "sensor"),
             SensorDef("name", <<>>, "sensor")>>
      [] device = "switch" ->
           <<SensorDef("connected", <<>>, "binary_sensor"),
             SensorDef("name", <<>>, "sensor"),
             SensorDef("displayname", <<>>, "sensor")>>

\* _build_lookup: the loop over status.items(), from item i on.
RECURSIVE BuildLookupFrom(_, _, _)
BuildLookupFrom(items, i, lookup) ==
    IF i > Len(items) THEN lookup
    ELSE LET key == items[i].k
             value == items[i].v
             \* the inner loop over value.items(), from item j on
             Inner[j \in 1..(IF value.t = "dict" THEN Len(value.items) + 1 ELSE 1)] ==
                 IF j = 1 THEN lookup
                 ELSE LET inner == value.items[j - 1] IN
                      DictSet(Inner[j - 1],
                              IF key = "Response"
                              THEN _normalize(Spell(inner.k))
                              ELSE _normalize(Joined(key, inner.k)),
                              inner.v)
         IN  BuildLookupFrom(items, i + 1,
               IF value.t = "dict"
               THEN Inner[Len(value.items) + 1]
               ELSE DictSet(lookup, _normalize(Spell(key)), value))

\* A _build_lookup that adds every top-level field directly.
_build_lookup_shallow(status) ==
    [i \in DOMAIN status.items |->
       Item(_normalize(Spell(status.items[i].k)), status.items[i].v)]

_build_lookup(status) == BuildLookupFrom(status.items, 1, <<>>)

\* A loop that tries the value name before its aliases.
RECURSIVE ExtractFrom_nameFirst(_, _, _, _)
ExtractFrom_nameFirst(defs, i, lookup, values) ==
    IF i > Len(defs) THEN values
    ELSE LET candidates == <<defs[i].var>> \o defs[i].source
             hits == {c \in DOMAIN candidates :
                        DictHas(lookup, _normalize(Spell(candidates[c])))}
             first == CHOOSE c \in hits : \A d \in hits : c <= d
         IN  ExtractFrom_nameFirst(defs, i + 1, lookup,
               IF hits = {} THEN values
               ELSE DictSet(values, defs[i].var,
                            DictGet(lookup, _normalize(Spell(candidates[first])))))

\* extract_state_values, the loop over DEVICE_SENSORS[device].items(): the
\* first candidate of (source or []) + [var] whose normal form is in lookup.
RECURSIVE ExtractFrom(_, _, _, _)
ExtractFrom(defs, i, lookup, values) ==
    IF i > Len(defs) THEN values
    ELSE LET candidates == defs[i].source \o <<defs[i].var>>
             hits == {c \in DOMAIN candidates :
                        DictHas(lookup, _normalize(Spell(candidates[c])))}
             first == CHOOSE c \in hits : \A d \in hits : c <= d
         IN  ExtractFrom(defs, i + 1, lookup,
               IF hits = {} THEN values
               ELSE DictSet(values, defs[i].var,
                            DictGet(lookup, _normalize(Spell(candidates[first])))))

\* entry.get(key): None when the key is missing.
EntryGet(entry, key) ==
    IF DictHas(entry.items, key) THEN DictGet(entry.items, key) ELSE None_

\* The (suffix, key) pairs _append_switches copies from an entry of
\* ReadonlySwitches and of WriteableSwitches, in the order of its statements.
ReadonlyFields ==
    <<<<"name", "Name">>, <<"value", "Value">>, <<"id", "Id">>,
      <<"description", "Description">>>>

WritableFields ==
    <<<<"name", "Name">>, <<"id", "Id">>, <<"min", "Min">>, <<"max", "Max">>,
      <<"description", "Description">>, <<"stepsize", "StepSize">>,
      <<"targetvalue", "TargetValue">>>>

\* f"{kind}_switch_{idx}_{suffix}"
SwitchKey(kind, idx, suffix) ==
    kind \o "_switch_" \o ToString(idx) \o "_" \o suffix

\* The statements values[f"..."] = entry.get(...) of one entry, from
\* statement f on.
RECURSIVE AppendEntry(_, _, _, _, _, _)
AppendEntry(values, kind, idx, entry, fields, f) ==
    IF f > Len(fields) THEN values
    ELSE AppendEntry(DictSet(values, SwitchKey(kind, idx, fields[f][1]),
                             EntryGet(entry, fields[f][2])),
                     kind, idx, entry, fields, f + 1)

\* A loop that numbers the entries it keeps: the index of an entry is the
\* number of dicts before it.
RECURSIVE AppendEntries_counted(_, _, _, _, _)
AppendEntries_counted(values, kind, entries, fields, i) ==
    IF i > Len(entries) THEN values
    ELSE AppendEntries_counted(
             IF entries[i].t = "dict"
             THEN AppendEntry(values, kind,
                              Cardinality({j \in 1 .. i - 1 :
                                             entries[j].t = "dict"}),
                              entries[i], fields, 1)
             ELSE values,
             kind, entries, fields, i + 1)

\* `for idx, entry in enumerate(entries)`, from element i on: an entry that
\* is not a dict is skipped.
RECURSIVE AppendEntries(_, _, _, _, _)
AppendEntries(values, kind, entries, fields, i) ==
    IF i > Len(entries) THEN values
    ELSE AppendEntries(IF entries[i].t = "dict"
                       THEN AppendEntry(values, kind, i - 1, entries[i],
                                        fields, 1)
                       ELSE values,
                       kind, entries, fields, i + 1)

\* What `for ... in enumerate(resp.get(key, []) or [])` runs over: nothing
\* for a missing or falsy value, the elements of a list, the keys of a dict,
\* the characters of a string; a number or True is not iterable (TypeError).
SwitchList(resp, key) ==
    LET v == IF DictHas(resp.items, key) THEN DictGet(resp.items, key)
             ELSE List(<<>>)
    IN  IF ~Truthy(v) THEN [raised |-> FALSE, elems |-> <<>>]
        ELSE CASE v.t = "list" -> [raised |-> FALSE, elems |-> v.elems]
               [] v.t = "dict" ->
                    [raised |-> FALSE,
                     elems |-> [i \in DOMAIN v.items |-> Str(v.items[i].k)]]
               [] v.t = "str" ->
                    [raised |-> FALSE,
                     elems |-> [i \in DOMAIN Spell(v.s) |-> Str(Spell(v.s)[i])]]
               [] OTHER -> [raised |-> TRUE, elems |-> <<>>]

\* _append_switches(status, values): [raised, values]. A "Response" that is
\* not a dict has no get(): AttributeError.
_append_switches(status, values) ==
    LET resp == IF status.t = "dict"
                THEN (IF DictHas(status.items, "Response")
                      THEN DictGet(status.items, "Response")
                      ELSE Dict(<<>>))
                ELSE Dict(<<>>)
    IN  IF resp.t /= "dict" THEN [raised |-> TRUE, values |-> values]
        ELSE LET ro_list == SwitchList(resp, "ReadonlySwitches")
                 rw_list == SwitchList(resp, "WriteableSwitches")
                 ro == AppendEntries(values, "readonly", ro_list.elems,
                                     ReadonlyFields, 1)
             IN  IF ro_list.raised THEN [raised |-> TRUE, values |-> values]
                 ELSE IF rw_list.raised THEN [raised |-> TRUE, values |-> ro]
                 ELSE [raised |-> FALSE,
                       values |-> AppendEntries(ro, "writable", rw_list.elems,
                                                WritableFields, 1)]

\* extract_state_values(device, status): [raised, values]. `status or {}`
\* that is not a dict has no items(): AttributeError.
extract_state_values(device, status) ==
    IF device \notin SENSOR_DEVICES
    THEN [raised |-> FALSE, values |-> <<>>]
    ELSE LET appended == IF device = "switch"
                         THEN _append_switches(status, <<>>)
                         ELSE [raised |-> FALSE, values |-> <<>>]
             s == IF Truthy(status) THEN status ELSE Dict(<<>>)
         IN  IF appended.raised \/ s.t /= "dict"
             THEN [raised |-> TRUE, values |-> <<>>]
             ELSE [raised |-> FALSE,
                   values |-> ExtractFrom(DEVICE_SENSORS(device), 1,
                                          _build_lookup(s), appended.values)]

\* A _format_value that hands the value on as it is.
_format_value_raw(value) == value

\* Bridge._format_value of a state value; a number's str() is its decimal
\* literal, carried here as the number itself.
_format_value(value) ==
    CASE value.t = "bool" -> Text(IF value.b THEN "true" ELSE "false")
      [] value.t = "str"  -> Text(value.s)
      [] OTHER            -> [t |-> "str()", of |-> value]

\* device_identifier(device_info, device) with the default device_id:
\* "nina_server_{device}", kept as the pair of its parts.
device_identifier(device) == <<"nina_server", device>>

\* -------------------------------------------------------- discovery.py

\* _iter_sensor_definitions: the base definitions, then the extra keys that
\* are no base definition, for the switch device only.
_iter_sensor_definitions(device, extra_keys) ==
    LET base_defs == IF device \in SENSOR_DEVICES THEN DEVICE_SENSORS(device)
                     ELSE <<>>
        isBase(key) == \E i \in DOMAIN base_defs : base_defs[i].var = key
        dynamic(key) == ~isBase(key) /\ device = "switch"
        extra == SelectSeq(extra_keys, dynamic)
    IN  base_defs \o [i \in DOMAIN extra |-> SensorDef(extra[i], <<>>, "sensor")]

\* build_sensor_discovery_messages: one retained qos 1 message per definition
\* on {discovery_prefix}/{platform}/{device_id}/{variable}/config.
build_sensor_discovery_messages(device, refresh, extra_keys) ==
    LET defs == _iter_sensor_definitions(device, extra_keys) IN
    [i \in DOMAIN defs |->
       LET variable == defs[i].var
           platform == IF defs[i].platform = "binary_sensor"
                       THEN "binary_sensor" ELSE "sensor"
           payload == [t |-> "discovery",
                       state_topic |->
                          STATE_TOPIC_TEMPLATE(base_topic, device, variable),
                       unique_id |-> <<device_identifier(device), variable>>,
                       availability_topic |->
                          render_device_availability_topic(device),
                       payload_available |-> "ON",
                       payload_not_available |-> "OFF",
                       \* int(refresh_every * 2.2) when refresh_every > 0
                       expire_after |->
                          IF refresh > 0 THEN (refresh * 22) \div 10 ELSE 0]
       IN  PublishMessage(<<discovery_prefix, platform,
                            device_identifier(device), variable, "config">>,
                          payload, TRUE, 1)]

\* build_image_discovery_message: {discovery_prefix}/camera/{device_id}/config.
build_image_discovery_message(device) ==
    PublishMessage(<<discovery_prefix, "camera", device_identifier(device),
                     "config">>,
                   [t |-> "discovery",
                    topic |-> IMAGE_TOPIC_TEMPLATE(base_topic, device),
                    unique_id |-> <<device_identifier(device)>>,
                    availability_topic |->
                       render_device_availability_topic(device),
                    payload_available |-> "ON",
                    payload_not_available |-> "OFF"],
                   TRUE, 1)

\* ------------------------------------------------------- nina_client.py

\* What one HTTP request of the client comes to: the body of a 2xx answer,
\* raise_for_status() raising HTTPError, or the session raising another
\* requests exception (no connection, timeout).
HttpBody(body) == [kind |-> "body", body |-> body]

HttpError == [kind |-> "HTTPError"]

HttpNoConnection == [kind |-> "ConnectionError"]

Returns(value) == [value |-> value, raised |-> FALSE]

Raises(exc) == [raised |-> TRUE, exc |-> exc]

\* _get_json / _get_bytes: the body, or the exception of the request.
_get(http) == IF http.kind = "body" THEN Returns(http.body) ELSE Raises(http.kind)

\* fetch_device_status for a device other than "application".
fetch_device_status(device, http) ==
    IF device \notin DEVICE_ENDPOINTS
    THEN Raises("ValueError")
    ELSE _get(http)

\* fetch_image for most_recent_image and screenshot: HTTPError becomes None,
\* any other exception propagates.
fetch_image(image_type, http) ==
    IF image_type \in {"most_recent_image", "screenshot"}
    THEN IF http.kind = "HTTPError" THEN Returns(None_) ELSE _get(http)
    ELSE Raises("ValueError")

\* _parse_tracking_mode: an int in 0..4, a known name or a digit string.
_parse_tracking_mode(mode) ==
    CASE mode.t = "int" /\ 0 <= mode.i /\ mode.i <= 4 -> Returns(mode)
      [] mode.t = "str" /\
         [i \in DOMAIN Spell(mode.s) |-> Lower(Spell(mode.s)[i])] = Spell("lunar")
           -> Returns(PyInt(1))
      [] OTHER -> Raises("ValueError")

\* payload.get(key): the value, or None.
Get(payload, key) ==
    IF DictHas(payload.items, key) THEN DictGet(payload.items, key) ELSE None_

\* NINAClient.send_command(device, payload) when the one request it may make
\* comes to `http`: what it returns or raises, and whether it made the request.
send_command(device, payload, http) ==
    IF payload.t /= "dict"
    THEN Raises("AttributeError") @@ [called |-> FALSE]
    ELSE LET a == Get(payload, "action") IN
    IF Truthy(a) /\ a.t /= "str"
    THEN Raises("AttributeError") @@ [called |-> FALSE]
    ELSE LET chars == IF Truthy(a) THEN Spell(a.s) ELSE <<>>
             action == [i \in DOMAIN chars |-> Lower(chars[i])]
             is(names) == \E n \in names : action = Spell(n)
             request == _get(http) @@ [called |-> TRUE]
             refused == Raises("ValueError") @@ [called |-> FALSE]
    IN  CASE device = "sequence" ->
               IF is({"start", "stop", "reset", "restart"})
               THEN request ELSE refused
          [] device = "mount" ->
               IF is({"home", "park", "unpark"}) THEN request
               ELSE IF is({"tracking", "track", "set_tracking"})
                    THEN IF _parse_tracking_mode(Get(payload, "mode")).raised
                         THEN refused ELSE request
                    ELSE refused
          [] device \in {"application", "screenshot"} ->
               IF http.kind = "body"
               THEN Returns(Dict(<<Item("image_base64", http.body)>>))
                    @@ [called |-> TRUE]
               ELSE request
          [] OTHER -> refused

\* ------------------------------------------------------------------- state

VARIABLES
    \* Scheduler (scheduler.py)
    tasks,             \* Scheduler._tasks: sequence of ScheduledTask
    lock_held,         \* Scheduler._lock is held by the loop thread
    sched_stop_event,  \* Scheduler._stop_event
    sched_pc,          \* Scheduler._thread: where the loop thread is
    sched_i,           \* _run: index of `task` in the for loop
    sched_now,         \* _run: local `now`
    next_delay,        \* _run: local `next_delay`
    clock,             \* time.monotonic()
    running,           \* indices of the tasks whose action is executing
    last_done,         \* the last completed action: task, outcome, times
    \* the thread that calls the Scheduler / runs Bridge.stop()
    stop_pc,           \* the statement of stop() the thread is at, or "none"
    \* Bridge (bridge.py)
    enabled,           \* config.devices[d].enabled
    main_pc,           \* the statement of Bridge.start() the main thread is at
    publish_queue,     \* Bridge._publish_queue
    stop_event,        \* Bridge._stop_event
    pub_pc,            \* Bridge._publisher_thread: where _publisher_loop is
    message,           \* _publisher_loop: local `message`
    published_discovery_topics,  \* Bridge._published_discovery_topics
    receiving,         \* the transport delivers inbound command messages
    \* history
    put_count,         \* per producer thread, the messages it has enqueued
    published,         \* per producer, the numbers of its messages handed
                       \* to MQTTClient.publish, in the order of the calls
    exit_check,        \* what the publisher loop saw at its last loop test
    stops,             \* calls of Bridge.stop() so far
    stop_puts,         \* the messages the current call of stop() enqueued
    cmds,              \* inbound command messages handled so far
    last_cmd,          \* the last command handled and what it produced
    last_poll,         \* the last poll run and what it produced
    \* threads inside _publish_device_discovery
    callers,           \* per thread: the statement it is at, its messages
    \* history, kept by the specifications that observe it
    last_outcome,      \* how the last call of MQTTClient.publish ended
    executions,        \* since when, and how often, each task action ran
    extraction,        \* a call of extract_state_values and its result
    loaded             \* the devices section read and what _build_devices
                       \* made of it

schedVars == <<tasks, lock_held, sched_stop_event, sched_pc, sched_i,
               sched_now, next_delay, clock, running, last_done>>

queueVars == <<publish_queue, put_count>>

pubVars == <<pub_pc, message, published, exit_check>>

cmdVars == <<cmds, last_cmd>>

pollVars == <<last_poll, callers>>

seenVars == <<last_outcome, executions, extraction, loaded>>

bridgeVars == <<enabled, main_pc, stop_event, published_discovery_topics,
                receiving, stops, stop_puts, queueVars, pubVars, cmdVars,
                pollVars, seenVars>>

\* ------------------------------------------- loading the configuration

\* int(x) of a YAML scalar: an int as it is, a float truncated toward zero
\* (numbers are in tenths), a bool as 0 or 1; None raises TypeError, text
\* that is no integer literal ValueError.
int(x) ==
    CASE x.t = "int"  -> [raised |-> FALSE, value |-> x.i]
      [] x.t = "num"  -> [raised |-> FALSE,
                          value |-> IF x.n >= 0 THEN x.n \div 10
                                    ELSE -((-x.n) \div 10)]
      [] x.t = "bool" -> [raised |-> FALSE, value |-> IF x.b THEN 1 ELSE 0]
      [] OTHER        -> [raised |-> TRUE, value |-> 0]

\* _build_devices, the loop `for device in DEFAULT_DEVICE_TYPES` from device
\* i on: `acc` holds the DeviceConfig fields of the devices built so far. A
\* section of a device that is no mapping has no get(): AttributeError.
RECURSIVE BuildDevicesFrom(_, _, _)
BuildDevicesFrom(devices_section, i, acc) ==
    IF i > Len(DEFAULT_DEVICE_TYPES) THEN acc
    ELSE LET device == DEFAULT_DEVICE_TYPES[i]
             raw == IF DictHas(devices_section, device)
                    THEN DictGet(devices_section, device) ELSE Dict(<<>>)
         IN
         IF raw.t /= "dict" THEN [acc EXCEPT !.raised = TRUE]
         ELSE LET on == IF DictHas(raw.items, "enabled")
                        THEN DictGet(raw.items, "enabled") ELSE Bool(TRUE)
                  refresh == int(IF DictHas(raw.items, "refresh_every")
                                 THEN DictGet(raw.items, "refresh_every")
                                 ELSE PyInt(DEFAULT_REFRESH_SECONDS))
              IN  IF refresh.raised \/ refresh.value <= 0
                  THEN [acc EXCEPT !.raised = TRUE]
                  ELSE BuildDevicesFrom(devices_section, i + 1,
                         [acc EXCEPT !.enabled[device] = Truthy(on),
                                     !.refresh_every[device] = refresh.value])

\* No DeviceConfig built.
NoDevices ==
    [raised |-> FALSE,
     enabled |-> [d \in Range(DEFAULT_DEVICE_TYPES) |-> FALSE],
     refresh_every |-> [d \in Range(DEFAULT_DEVICE_TYPES) |-> 0]]

\* A _build_devices without the test `if refresh_every <= 0`.
_build_devices_unchecked(devices_section) ==
    [raised |-> FALSE,
     enabled |->
        [d \in Range(DEFAULT_DEVICE_TYPES) |->
           IF DictHas(devices_section, d)
                /\ DictHas(DictGet(devices_section, d).items, "enabled")
           THEN Truthy(DictGet(DictGet(devices_section, d).items, "enabled"))
           ELSE TRUE],
     refresh_every |->
        [d \in Range(DEFAULT_DEVICE_TYPES) |->
           IF DictHas(devices_section, d)
                /\ DictHas(DictGet(devices_section, d).items, "refresh_every")
           THEN int(DictGet(DictGet(devices_section, d).items,
                            "refresh_every")).value
           ELSE DEFAULT_REFRESH_SECONDS]]

\* _build_devices(config) on config["devices"]: [raised, enabled,
\* refresh_every]; when it raises there is no configuration.
_build_devices(devices_section) ==
    LET built == BuildDevicesFrom(devices_section, 1, NoDevices) IN
    IF built.raised THEN [NoDevices EXCEPT !.raised = TRUE] ELSE built

\* A configuration that has been loaded, with refresh_every: 1 for every
\* device.
EverySecond ==
    [raw |-> <<>>, done |-> TRUE, raised |-> FALSE,
     refresh_every |-> [d \in Range(DEFAULT_DEVICE_TYPES) |-> 1]]

\* config.devices[device].refresh_every, in seconds.
refresh_every(device) == loaded.refresh_every[device]

vars == <<schedVars, stop_pc, bridgeVars>>

\* time.monotonic() when the process starts its threads.
BootClocks == {0, Seconds(2)}

\* ---------------------------------------------------------------- Scheduler

\* ScheduledTask(name, interval, fn) with last_run defaulting to 0.0.
ScheduledTask(name, interval, fn) ==
    [name |-> name, interval |-> interval, fn |-> fn, last_run |-> 0]

NoAction == [task |-> 0, raised |-> FALSE, begun |-> 0, ended |-> 0]

SchedInit ==
    /\ tasks = <<>>
    /\ lock_held = FALSE
    /\ sched_stop_event = FALSE
    /\ sched_pc = "none"
    /\ sched_i = 0
    /\ sched_now = 0
    /\ next_delay = Ceiling
    /\ running = {}
    /\ last_done = NoAction

\* self._thread and self._thread.is_alive()
ThreadAlive == sched_pc \notin {"none", "exited"}

\* Scheduler.add_task: append under the lock (blocks while a pass holds it).
add_task(task) ==
    /\ ~lock_held
    /\ tasks' = Append(tasks, task)

\* Scheduler.start: a new loop thread unless one is alive.
Scheduler_start ==
    sched_pc' = IF ThreadAlive THEN sched_pc ELSE "check"

\* Scheduler.stop, first statement: self._stop_event.set()
Scheduler_stop_set == sched_stop_event' = TRUE

\* Scheduler.stop, self._thread.join(timeout=5) returns: the thread has
\* exited (or was never created), or the five seconds elapsed, which takes
\* a task action in flight: every other step of the loop is immediate and
\* the wait ends as soon as the event is set.
Scheduler_join_returns ==
    \/ ~ThreadAlive
    \/ sched_pc = "call"

\* A loop whose while test does not look at the stop event.
LoopCheck_deaf ==
    /\ sched_pc = "check"
    /\ ~lock_held
    /\ sched_pc' = "pass"
    /\ sched_now' = clock
    /\ next_delay' = Ceiling
    /\ lock_held' = TRUE
    /\ sched_i' = 1
    /\ UNCHANGED <<tasks, sched_stop_event, clock, running, last_done>>

\* A loop that tests the stop event only after its first pass (do-while).
LoopCheck_passFirst ==
    /\ sched_pc = "check"
    /\ IF sched_stop_event /\ sched_i > 0
       THEN /\ sched_pc' = "exited"
            /\ UNCHANGED <<sched_now, next_delay, lock_held, sched_i>>
       ELSE /\ ~lock_held
            /\ sched_pc' = "pass"
            /\ sched_now' = clock
            /\ next_delay' = Ceiling
            /\ lock_held' = TRUE
            /\ sched_i' = 1
    /\ UNCHANGED <<tasks, sched_stop_event, clock, running, last_done>>

\* _run: the while test, then `now = time.monotonic()`, `next_delay = 1.0`
\* and the entry of `with self._lock`.
LoopCheck ==
    /\ sched_pc = "check"
    /\ IF sched_stop_event
       THEN /\ sched_pc' = "exited"
            /\ UNCHANGED <<sched_now, next_delay, lock_held, sched_i>>
       ELSE /\ ~lock_held
            /\ sched_pc' = "pass"
            /\ sched_now' = clock
            /\ next_delay' = Ceiling
            /\ lock_held' = TRUE
            /\ sched_i' = 1
    /\ UNCHANGED <<tasks, sched_stop_event, clock, running, last_done>>

DueIn(task) == (task.last_run + task.interval) - sched_now

\* A loop that hands a due task's action to a thread of its own and goes on
\* with the pass.
LoopTask_detached ==
    /\ sched_pc = "pass"
    /\ sched_i <= Len(tasks)
    /\ LET task == tasks[sched_i] IN
       IF (task.last_run + task.interval) - sched_now <= 0
       THEN /\ running' = running \cup {sched_i}
            /\ next_delay' = Min(next_delay, Max(task.interval, Floor))
       ELSE /\ next_delay' = Min(next_delay,
                                 Max((task.last_run + task.interval) - sched_now,
                                     Floor))
            /\ UNCHANGED running
    /\ sched_i' = sched_i + 1
    /\ UNCHANGED <<tasks, lock_held, sched_stop_event, sched_pc, sched_now,
                   clock, last_done>>

\* _run, one iteration of `for task in self._tasks`: a task that is not due
\* only lowers next_delay; a due task has its action called.
LoopTask ==
    /\ sched_pc = "pass"
    /\ sched_i <= Len(tasks)
    /\ LET task == tasks[sched_i] IN
       IF DueIn(task) <= 0
       THEN /\ sched_pc' = "call"
            /\ running' = running \cup {sched_i}
            /\ UNCHANGED <<next_delay, sched_i>>
       ELSE /\ next_delay' = Min(next_delay, Max(DueIn(task), Floor))
            /\ sched_i' = sched_i + 1
            /\ UNCHANGED <<sched_pc, running>>
    /\ UNCHANGED <<tasks, lock_held, sched_stop_event, sched_now, clock,
                   last_done>>

\* A loop that calls task.fn() with no try/except: an exception ends the
\* loop thread.
TaskCompletes_unguarded(raised, dur) ==
    /\ sched_pc = "call"
    /\ clock + dur <= MaxTime
    /\ clock' = clock + dur
    /\ running' = running \ {sched_i}
    /\ IF raised
       THEN /\ sched_pc' = "exited"
            /\ UNCHANGED <<tasks, next_delay, sched_i>>
       ELSE /\ tasks' = [tasks EXCEPT ![sched_i].last_run = clock + dur]
            /\ next_delay' = Min(next_delay, Max(tasks[sched_i].interval, Floor))
            /\ sched_i' = sched_i + 1
            /\ sched_pc' = "pass"
    /\ last_done' = [task |-> sched_i, raised |-> raised,
                     begun |-> clock, ended |-> clock + dur]
    /\ UNCHANGED <<lock_held, sched_stop_event, sched_now>>

\* A loop that leaves task.last_run as it was: the task stays due.
TaskCompletes_noStamp(raised, dur) ==
    /\ sched_pc = "call"
    /\ clock + dur <= MaxTime
    /\ clock' = clock + dur
    /\ running' = running \ {sched_i}
    /\ next_delay' = Min(next_delay, Max(tasks[sched_i].interval, Floor))
    /\ sched_i' = sched_i + 1
    /\ sched_pc' = "pass"
    /\ last_done' = [task |-> sched_i, raised |-> raised,
                     begun |-> clock, ended |-> clock + dur]
    /\ UNCHANGED <<tasks, lock_held, sched_stop_event, sched_now>>

\* A loop that does not reset due_in to the interval after the action.
TaskCompletes_staleDue(raised, dur) ==
    /\ sched_pc = "call"
    /\ clock + dur <= MaxTime
    /\ clock' = clock + dur
    /\ running' = running \ {sched_i}
    /\ tasks' = [tasks EXCEPT ![sched_i].last_run = clock + dur]
    /\ next_delay' = Min(next_delay, Max(DueIn(tasks[sched_i]), Floor))
    /\ sched_i' = sched_i + 1
    /\ sched_pc' = "pass"
    /\ last_done' = [task |-> sched_i, raised |-> raised,
                     begun |-> clock, ended |-> clock + dur]
    /\ UNCHANGED <<lock_held, sched_stop_event, sched_now>>

\* A loop that sets task.last_run to the time the task was due.
TaskCompletes_dueTime(raised, dur) ==
    /\ sched_pc = "call"
    /\ clock + dur <= MaxTime
    /\ clock' = clock + dur
    /\ running' = running \ {sched_i}
    /\ tasks' = [tasks EXCEPT ![sched_i].last_run = @ + tasks[sched_i].interval]
    /\ next_delay' = Min(next_delay, Max(tasks[sched_i].interval, Floor))
    /\ sched_i' = sched_i + 1
    /\ sched_pc' = "pass"
    /\ last_done' = [task |-> sched_i, raised |-> raised,
                     begun |-> clock, ended |-> clock + dur]
    /\ UNCHANGED <<lock_held, sched_stop_event, sched_now>>

\* _safe_run returns after task.fn() returned or raised (the exception is
\* caught and logged), `dur` ticks after the call; then
\* task.last_run = time.monotonic(), due_in = task.interval and the min().
TaskCompletes(raised, dur) ==
    /\ sched_pc = "call"
    /\ clock + dur <= MaxTime
    /\ clock' = clock + dur
    /\ running' = running \ {sched_i}
    /\ tasks' = [tasks EXCEPT ![sched_i].last_run = clock + dur]
    /\ next_delay' = Min(next_delay, Max(tasks[sched_i].interval, Floor))
    /\ sched_i' = sched_i + 1
    /\ sched_pc' = "pass"
    /\ last_done' = [task |-> sched_i, raised |-> raised,
                     begun |-> clock, ended |-> clock + dur]
    /\ UNCHANGED <<lock_held, sched_stop_event, sched_now>>

\* _run: the for loop is over, the lock is released and the thread enters
\* self._stop_event.wait(timeout=next_delay).
LoopRelease ==
    /\ sched_pc = "pass"
    /\ sched_i > Len(tasks)
    /\ lock_held' = FALSE
    /\ sched_pc' = "wait"
    /\ UNCHANGED <<tasks, sched_stop_event, sched_i, sched_now, next_delay,
                   clock, running, last_done>>

\* self._stop_event.wait(timeout=next_delay) returns: at once when the
\* event is set, after next_delay otherwise.
LoopWait ==
    /\ sched_pc = "wait"
    /\ IF sched_stop_event
       THEN clock' = clock
       ELSE /\ clock + next_delay <= MaxTime
            /\ clock' = clock + next_delay
    /\ sched_pc' = "check"
    /\ UNCHANGED <<tasks, lock_held, sched_stop_event, sched_i, sched_now,
                   next_delay, running, last_done>>

\* The loop thread's steps that touch the Scheduler only.
LoopStep == LoopCheck \/ LoopTask \/ LoopRelease \/ LoopWait

\* The loop thread takes a step; nothing of the Bridge changes.
SchedLoop ==
    /\ LoopStep
    /\ UNCHANGED <<stop_pc, bridgeVars>>

\* ---------------------------------------------------- Bridge (bridge.py)

\* The threads that enqueue: the one running start()/stop(), the scheduler
\* loop thread, and the transport thread that runs the command handler.
Producers == {"main", "scheduler", "mqtt"}

NoCommand == [device |-> "", payload |-> [t |-> "none"], http |-> [kind |-> ""],
              called |-> FALSE, escaped |-> FALSE, msgs |-> <<>>]

NoPoll == [device |-> "", failed |-> FALSE, msgs |-> <<>>, values |-> <<>>]

\* No task action has run since the clock's present value.
NoExecutions == [since |-> clock, count |-> [i \in 1 .. MaxTasks |-> 0]]

\* No call of extract_state_values has been made.
NoExtraction == [device |-> "", status |-> [t |-> "none"], done |-> FALSE,
                 raised |-> FALSE, values |-> <<>>]

\* The threads that may be inside _publish_device_discovery.
Callers == {"main", "scheduler"}

Outside == [pc |-> "return", messages |-> <<>>, i |-> 0]

NoCheck == [stop |-> FALSE, qsize |-> 0, puts |-> [p \in Producers |-> 0]]

\* Bridge.__init__
BridgeInit ==
    /\ main_pc = "_configure_mqtt"
    /\ publish_queue = <<>>
    /\ stop_event = FALSE
    /\ pub_pc = "none"
    /\ message = [t |-> "none"]
    /\ published_discovery_topics = {}
    /\ receiving = FALSE
    /\ put_count = [p \in Producers |-> 0]
    /\ published = [p \in Producers |-> <<>>]
    /\ exit_check = NoCheck
    /\ stops = 0
    /\ stop_puts = <<>>
    /\ cmds = 0
    /\ last_cmd = NoCommand
    /\ last_poll = NoPoll
    /\ callers = [t \in Callers |-> Outside]
    /\ last_outcome = "none"
    /\ executions = NoExecutions

\* The messages `msgs` as thread p enqueues them: each carries its producer
\* and its number in the producer's program order.
Stamped(p, msgs) ==
    [i \in DOMAIN msgs |-> msgs[i] @@ [src |-> p, seq |-> put_count[p] + i]]

\* self._publish_queue.put(m) for each m of msgs, by thread p.
Put(p, msgs) ==
    /\ publish_queue' = publish_queue \o Stamped(p, msgs)
    /\ put_count' = [put_count EXCEPT ![p] = @ + Len(msgs)]

\* config.devices.items() restricted to the enabled devices, in order.
EnabledDevices ==
    LET on(d) == enabled[d] IN SelectSeq(DEFAULT_DEVICE_TYPES, on)

\* An availability message sent at the default delivery level.
AvailabilityMessage_qos0(device, payload) ==
    PublishMessage(render_availability_topic(device), Text(payload), TRUE, 0)

\* PublishMessage(topic=<availability topic>, payload=payload, retain=True,
\* qos=1), as _publish_availability and _publish_all_device_availability
\* build it.
AvailabilityMessage(device, payload) ==
    PublishMessage(render_availability_topic(device), Text(payload), TRUE, 1)

\* _publish_device_discovery, the messages built for a device.
DiscoveryMessages(device, extra_keys) ==
    IF device \in IMAGE_DEVICES
    THEN <<build_image_discovery_message(device)>>
    ELSE IF device \in SENSOR_DEVICES
    THEN build_sensor_discovery_messages(device, refresh_every(device),
                                         extra_keys)
    ELSE <<>>

\* _publish_device_discovery, the loop `for msg in messages` from message i
\* on: [topics, msgs] are the record and the messages enqueued so far.
RECURSIVE AnnounceFrom(_, _, _)
AnnounceFrom(messages, i, acc) ==
    IF i > Len(messages) THEN acc
    ELSE AnnounceFrom(messages, i + 1,
           IF messages[i].topic \in acc.topics THEN acc
           ELSE [topics |-> acc.topics \cup {messages[i].topic},
                 msgs |-> Append(acc.msgs, messages[i])])

\* A _publish_device_discovery that does not consult the record.
_publish_device_discovery_unrecorded(device, extra_keys, topics) ==
    LET all == AnnounceFrom(DiscoveryMessages(device, extra_keys), 1,
                            [topics |-> {}, msgs |-> <<>>])
    IN  [topics |-> topics \cup all.topics, msgs |-> all.msgs]

\* _publish_device_discovery(device, extra_keys) run by one thread alone,
\* from the record `topics`: the new record and the messages enqueued.
_publish_device_discovery(device, extra_keys, topics) ==
    AnnounceFrom(DiscoveryMessages(device, extra_keys), 1,
                 [topics |-> topics, msgs |-> <<>>])

\* _publish_discovery: every enabled device in turn.
RECURSIVE PublishDiscoveryFrom(_, _, _)
PublishDiscoveryFrom(devices, i, acc) ==
    IF i > Len(devices) THEN acc
    ELSE LET one == _publish_device_discovery(devices[i], <<>>, acc.topics) IN
         PublishDiscoveryFrom(devices, i + 1,
           [topics |-> one.topics, msgs |-> acc.msgs \o one.msgs])

\* A _publish_discovery without `if not device_cfg.enabled: continue`, over
\* the device kinds of the modelled configurations.
_publish_discovery_all ==
    LET modelled(d) == d \in Devices IN
    PublishDiscoveryFrom(SelectSeq(DEFAULT_DEVICE_TYPES, modelled), 1,
                         [topics |-> published_discovery_topics, msgs |-> <<>>])

_publish_discovery ==
    PublishDiscoveryFrom(EnabledDevices, 1,
                         [topics |-> published_discovery_topics, msgs |-> <<>>])

\* _schedule_polls: one task per enabled device, _poll_image for the image
\* kinds and _poll_device for the others.
PollTask(device) ==
    ScheduledTask(<<"poll", device>>, Seconds(refresh_every(device)),
                  [kind |-> IF device \in IMAGE_ENDPOINTS \/ device \in IMAGE_DEVICES
                            THEN "_poll_image" ELSE "_poll_device",
                   device |-> device])

_schedule_polls == [i \in DOMAIN EnabledDevices |-> PollTask(EnabledDevices[i])]

\* A _poll_device that calls _publish_device_discovery after the loop over
\* the values.
_poll_device_statesFirst(device, http, topics) ==
    LET availability_topic == render_device_availability_topic(device)
        off == [msgs |-> <<PublishMessage(availability_topic, Text("OFF"), TRUE, 1)>>,
                topics |-> topics, raised |-> FALSE, values |-> <<>>]
        status == fetch_device_status(device, http)
    IN
    IF device \notin DEVICE_ENDPOINTS
    THEN [msgs |-> <<>>, topics |-> topics, raised |-> FALSE, values |-> <<>>]
    ELSE IF status.raised THEN off
    ELSE LET extracted == extract_state_values(device, status.value) IN
    IF extracted.raised THEN off
    ELSE LET values == extracted.values
             disc == _publish_device_discovery(device, DictKeys(values), topics)
             notNone(item) == item.v.t /= "none"
             shown == SelectSeq(values, notNone)
             states == [i \in DOMAIN shown |->
                          PublishMessage(
                            STATE_TOPIC_TEMPLATE(base_topic, device, shown[i].k),
                            _format_value(shown[i].v), TRUE, 0)]
         IN  [msgs |-> states \o disc.msgs \o
                       <<PublishMessage(availability_topic, Text("ON"), TRUE, 1)>>,
              topics |-> disc.topics, raised |-> FALSE, values |-> values]

\* A _poll_device without `if value is None: continue`.
_poll_device_nullsToo(device, http, topics) ==
    LET availability_topic == render_device_availability_topic(device)
        off == [msgs |-> <<PublishMessage(availability_topic, Text("OFF"), TRUE, 1)>>,
                topics |-> topics, raised |-> FALSE, values |-> <<>>]
        status == fetch_device_status(device, http)
    IN
    IF device \notin DEVICE_ENDPOINTS
    THEN [msgs |-> <<>>, topics |-> topics, raised |-> FALSE, values |-> <<>>]
    ELSE IF status.raised THEN off
    ELSE LET extracted == extract_state_values(device, status.value) IN
    IF extracted.raised THEN off
    ELSE LET values == extracted.values
             disc == _publish_device_discovery(device, DictKeys(values), topics)
             shown == values
             states == [i \in DOMAIN shown |->
                          PublishMessage(
                            STATE_TOPIC_TEMPLATE(base_topic, device, shown[i].k),
                            _format_value(shown[i].v), TRUE, 0)]
         IN  [msgs |-> disc.msgs \o states \o
                       <<PublishMessage(availability_topic, Text("ON"), TRUE, 1)>>,
              topics |-> disc.topics, raised |-> FALSE, values |-> values]

\* A poll that, when it fails, forgets the discovery topics it announced,
\* so that the entities are announced again when the device is back.
_poll_device_forgets(device, http, topics) ==
    LET availability_topic == render_device_availability_topic(device)
        off == [msgs |-> <<PublishMessage(availability_topic, Text("OFF"), TRUE, 1)>>,
                topics |-> {}, raised |-> FALSE, values |-> <<>>]
        status == fetch_device_status(device, http)
    IN
    IF device \notin DEVICE_ENDPOINTS
    THEN [msgs |-> <<>>, topics |-> topics, raised |-> FALSE, values |-> <<>>]
    ELSE IF status.raised THEN off
    ELSE LET extracted == extract_state_values(device, status.value) IN
    IF extracted.raised THEN off
    ELSE LET values == extracted.values
             disc == _publish_device_discovery(device, DictKeys(values), topics)
             notNone(item) == item.v.t /= "none"
             shown == SelectSeq(values, notNone)
             states == [i \in DOMAIN shown |->
                          PublishMessage(
                            STATE_TOPIC_TEMPLATE(base_topic, device, shown[i].k),
                            _format_value(shown[i].v), TRUE, 0)]
         IN  [msgs |-> disc.msgs \o states \o
                       <<PublishMessage(availability_topic, Text("ON"), TRUE, 1)>>,
              topics |-> disc.topics, raised |-> FALSE, values |-> values]

\* _poll_device(device) when the status request comes to `http`: the
\* messages it enqueues, the discovery record after it, whether an
\* exception leaves it, and the values extraction returned.
_poll_device(device, http, topics) ==
    LET availability_topic == render_device_availability_topic(device)
        off == [msgs |-> <<PublishMessage(availability_topic, Text("OFF"), TRUE, 1)>>,
                topics |-> topics, raised |-> FALSE, values |-> <<>>]
        status == fetch_device_status(device, http)
    IN
    IF device \notin DEVICE_ENDPOINTS
    THEN [msgs |-> <<>>, topics |-> topics, raised |-> FALSE, values |-> <<>>]
    ELSE IF status.raised THEN off
    ELSE LET extracted == extract_state_values(device, status.value) IN
    IF extracted.raised THEN off
    ELSE LET values == extracted.values
             disc == _publish_device_discovery(device, DictKeys(values), topics)
             notNone(item) == item.v.t /= "none"
             shown == SelectSeq(values, notNone)
             states == [i \in DOMAIN shown |->
                          PublishMessage(
                            STATE_TOPIC_TEMPLATE(base_topic, device, shown[i].k),
                            _format_value(shown[i].v), TRUE, 0)]
         IN  [msgs |-> disc.msgs \o states \o
                       <<PublishMessage(availability_topic, Text("ON"), TRUE, 1)>>,
              topics |-> disc.topics, raised |-> FALSE, values |-> values]

\* _poll_image(image_type) when the image request comes to `http`.
_poll_image(image_type, http) ==
    LET availability_topic == render_device_availability_topic(image_type)
        image_bytes == fetch_image(image_type, http)
    IN
    IF image_type \notin IMAGE_ENDPOINTS
    THEN [msgs |-> <<>>, raised |-> FALSE]
    ELSE IF image_bytes.raised
    THEN [msgs |-> <<>>, raised |-> TRUE]
    ELSE IF image_bytes.value.t = "none"
    THEN [msgs |-> <<PublishMessage(availability_topic, Text("OFF"), TRUE, 1)>>,
          raised |-> FALSE]
    ELSE [msgs |-> <<PublishMessage(IMAGE_TOPIC_TEMPLATE(base_topic, image_type),
                                    image_bytes.value, FALSE, 0),
                     PublishMessage(availability_topic, Text("ON"), TRUE, 1)>>,
          raised |-> FALSE]

\* json.loads(msg.payload.decode("utf-8") or "{}") of the payload bytes.
json_loads(payload) ==
    CASE payload.t = "undecodable" -> Raises("UnicodeDecodeError")
      [] payload.t = "empty"       -> Returns(Dict(<<>>))
      [] payload.t = "invalid"     -> Raises("JSONDecodeError")
      [] payload.t = "json"        -> Returns(payload.value)

\* A handler whose `except Exception` only logs.
_handle_command_logOnly(topic, payload, http) ==
    LET parsed == json_loads(payload)
        device == IF Len(topic) >= 2 THEN topic[Len(topic) - 1] ELSE "unknown"
    IN
    IF parsed.raised
    THEN [device |-> device, msgs |-> <<>>, called |-> FALSE,
          escaped |-> parsed.exc /= "JSONDecodeError"]
    ELSE LET response == send_command(device, parsed.value, http) IN
         [device |-> device, called |-> response.called, escaped |-> FALSE,
          msgs |->
            IF ~response.raised /\ Truthy(response.value)
            THEN <<PublishMessage(
                     STATE_TOPIC_TEMPLATE(base_topic, device, "command_response"),
                     [t |-> "json.dumps", of |-> response.value], FALSE, 0)>>
            ELSE <<>>]

\* A handler that raises after it has enqueued the response: the `except`
\* then enqueues an error message as well.
_handle_command_both(topic, payload, http) ==
    LET parsed == json_loads(payload)
        device == IF Len(topic) >= 2 THEN topic[Len(topic) - 1] ELSE "unknown"
    IN
    IF parsed.raised
    THEN [device |-> device, msgs |-> <<>>, called |-> FALSE,
          escaped |-> parsed.exc /= "JSONDecodeError"]
    ELSE LET response == send_command(device, parsed.value, http)
             error(exc) == PublishMessage(render_command_error_topic(device),
                                          [t |-> "str(exc)", exc |-> exc],
                                          FALSE, 0)
         IN
         [device |-> device, called |-> response.called, escaped |-> FALSE,
          msgs |->
            IF response.raised
            THEN <<error(response.exc)>>
            ELSE IF Truthy(response.value)
            THEN <<PublishMessage(
                     STATE_TOPIC_TEMPLATE(base_topic, device, "command_response"),
                     [t |-> "json.dumps", of |-> response.value], FALSE, 0),
                   error("Exception")>>
            ELSE <<>>]

\* _handle_command(_client, msg) when the request send_command may make
\* comes to `http`: the messages enqueued, whether the device API was
\* called, and whether an exception leaves the handler.
_handle_command(topic, payload, http) ==
    LET parsed == json_loads(payload)
        device == IF Len(topic) >= 2 THEN topic[Len(topic) - 1] ELSE "unknown"
    IN
    IF parsed.raised
    THEN [device |-> device, msgs |-> <<>>, called |-> FALSE,
          escaped |-> parsed.exc /= "JSONDecodeError"]
    ELSE LET response == send_command(device, parsed.value, http) IN
         [device |-> device, called |-> response.called, escaped |-> FALSE,
          msgs |->
            IF response.raised
            THEN <<PublishMessage(render_command_error_topic(device),
                                  [t |-> "str(exc)", exc |-> response.exc],
                                  FALSE, 0)>>
            ELSE IF Truthy(response.value)
            THEN <<PublishMessage(
                     STATE_TOPIC_TEMPLATE(base_topic, device, "command_response"),
                     [t |-> "json.dumps", of |-> response.value], FALSE, 0)>>
            ELSE <<>>]

\* --- Bridge.start(), statement by statement, on the main thread. A call of
\* stop() runs on the same thread (main.py installs it as the signal
\* handler), so start() makes no step while stop() is running.

StartStep(at, next) ==
    /\ main_pc = at
    /\ stop_pc = "none"
    /\ main_pc' = next

\* _configure_mqtt: set_lwt, connect, _publish_availability("ON").
StartConfigure ==
    /\ StartStep("_configure_mqtt", "_subscribe_commands")
    /\ Put("main", <<AvailabilityMessage("", "ON")>>)
    /\ UNCHANGED <<schedVars, stop_pc, enabled, stop_event,
                   published_discovery_topics, receiving, stops, stop_puts,
                   pubVars, cmdVars, pollVars, seenVars>>

\* _subscribe_commands: {base}/+/command is handled by _handle_command.
StartSubscribe ==
    /\ StartStep("_subscribe_commands", "_publish_discovery")
    /\ receiving' = TRUE
    /\ UNCHANGED <<schedVars, stop_pc, enabled, stop_event,
                   published_discovery_topics, stops, stop_puts, queueVars,
                   pubVars, cmdVars, pollVars, seenVars>>

StartDiscovery ==
    /\ StartStep("_publish_discovery", "_start_publisher")
    /\ published_discovery_topics' = _publish_discovery.topics
    /\ Put("main", _publish_discovery.msgs)
    /\ UNCHANGED <<schedVars, stop_pc, enabled, stop_event, receiving, stops,
                   stop_puts, pubVars, cmdVars, pollVars, seenVars>>

\* _start_publisher: the publisher thread starts at the loop test.
StartPublisher ==
    /\ StartStep("_start_publisher", "_schedule_polls")
    /\ pub_pc' = "check_stop"
    /\ UNCHANGED <<schedVars, stop_pc, enabled, stop_event,
                   published_discovery_topics, receiving, stops, stop_puts,
                   queueVars, message, published, exit_check, cmdVars, pollVars, seenVars>>

\* _schedule_polls: add_task for every enabled device.
StartSchedule ==
    /\ StartStep("_schedule_polls", "scheduler.start")
    /\ ~lock_held
    /\ tasks' = tasks \o _schedule_polls
    /\ UNCHANGED <<lock_held, sched_stop_event, sched_pc, sched_i, sched_now,
                   next_delay, clock, running, last_done, stop_pc, enabled,
                   stop_event, published_discovery_topics, receiving, stops,
                   stop_puts, queueVars, pubVars, cmdVars, pollVars, seenVars>>

\* self.scheduler.start(), after which main() waits in signal.pause().
StartScheduler ==
    /\ main_pc = "scheduler.start"
    /\ stop_pc = "none"
    /\ Scheduler_start
    /\ main_pc' = "pause"
    /\ UNCHANGED <<tasks, lock_held, sched_stop_event, sched_i, sched_now,
                   next_delay, clock, running, last_done, stop_pc, enabled,
                   stop_event, published_discovery_topics, receiving, stops,
                   stop_puts, queueVars, pubVars, cmdVars, pollVars, seenVars>>

\* --- Bridge.stop(), statement by statement.

\* stop() with the availability messages enqueued before the Scheduler is
\* told to stop.
StopOrder_offFirst ==
    <<"_publish_all_device_availability", "_publish_availability",
      "scheduler.stop", "_stop_event.set", "_publisher_thread.join",
      "mqtt.disconnect">>

\* The statements of stop() in the order it runs them.
StopOrder ==
    <<"scheduler.stop", "_publish_all_device_availability",
      "_publish_availability", "_stop_event.set", "_publisher_thread.join",
      "mqtt.disconnect">>

\* The statement after `step`, "none" after the last.
After(step) ==
    LET i == CHOOSE k \in DOMAIN StopOrder : StopOrder[k] = step IN
    IF i = Len(StopOrder) THEN "none" ELSE StopOrder[i + 1]

\* A signal is delivered: stop() is entered.
StopCall ==
    /\ stop_pc = "none"
    /\ stops < MaxStops
    /\ stops' = stops + 1
    /\ stop_puts' = <<>>
    /\ stop_pc' = StopOrder[1]
    /\ UNCHANGED <<schedVars, enabled, main_pc, stop_event,
                   published_discovery_topics, receiving, queueVars, pubVars,
                   cmdVars, pollVars, seenVars>>

\* self.scheduler.stop(): the event is set, then the join.
StopScheduler ==
    /\ stop_pc = "scheduler.stop"
    /\ Scheduler_stop_set
    /\ stop_pc' = "scheduler.join"
    /\ UNCHANGED <<tasks, lock_held, sched_pc, sched_i, sched_now, next_delay,
                   clock, running, last_done, bridgeVars>>

StopSchedulerJoined ==
    /\ stop_pc = "scheduler.join"
    /\ Scheduler_join_returns
    /\ stop_pc' = After("scheduler.stop")
    /\ UNCHANGED <<schedVars, bridgeVars>>

\* A _publish_all_device_availability that skips no device.
_publish_all_device_availability_every(payload) ==
    [i \in DOMAIN DEFAULT_DEVICE_TYPES |->
       AvailabilityMessage(DEFAULT_DEVICE_TYPES[i], payload)]

\* _publish_all_device_availability(payload): one message per enabled device.
_publish_all_device_availability(payload) ==
    [i \in DOMAIN EnabledDevices |-> AvailabilityMessage(EnabledDevices[i], payload)]

StopPut(step, msgs) ==
    /\ stop_pc = step
    /\ Put("main", msgs)
    /\ stop_puts' = stop_puts \o msgs
    /\ stop_pc' = After(step)
    /\ UNCHANGED <<schedVars, enabled, main_pc, stop_event,
                   published_discovery_topics, receiving, stops, pubVars,
                   cmdVars, pollVars, seenVars>>

StopDevicesOff ==
    StopPut("_publish_all_device_availability",
            _publish_all_device_availability("OFF"))

\* self._publish_availability("OFF"): the bridge's own availability.
StopBridgeOff ==
    StopPut("_publish_availability", <<AvailabilityMessage("", "OFF")>>)

\* self._stop_event.set()
StopSetEvent ==
    /\ stop_pc = "_stop_event.set"
    /\ stop_event' = TRUE
    /\ stop_pc' = After("_stop_event.set")
    /\ UNCHANGED <<schedVars, enabled, main_pc, published_discovery_topics,
                   receiving, stops, stop_puts, queueVars, pubVars, cmdVars, pollVars, seenVars>>

\* if self._publisher_thread: self._publisher_thread.join(timeout=5) returns:
\* the thread has exited or was never started, or the five seconds elapsed.
StopPublisherJoined ==
    /\ stop_pc = "_publisher_thread.join"
    /\ stop_pc' = After("_publisher_thread.join")
    /\ UNCHANGED <<schedVars, bridgeVars>>

\* self.mqtt.disconnect() (loop_stop: no more inbound messages), nina.close().
StopDisconnect ==
    /\ stop_pc = "mqtt.disconnect"
    /\ receiving' = FALSE
    /\ stop_pc' = After("mqtt.disconnect")
    /\ UNCHANGED <<schedVars, enabled, main_pc, stop_event,
                   published_discovery_topics, stops, stop_puts, queueVars,
                   pubVars, cmdVars, pollVars, seenVars>>

\* --- _publisher_loop, on the publisher thread.

\* while not self._stop_event.is_set() or ...: the left operand.
PubCheckStop ==
    /\ pub_pc = "check_stop"
    /\ pub_pc' = IF stop_event THEN "check_empty" ELSE "get"
    /\ UNCHANGED <<message, published, exit_check>>

\* A loop `while not self._stop_event.is_set()`: it ends on the event alone.
PubCheckEmpty_stopOnly ==
    /\ pub_pc = "check_empty"
    /\ pub_pc' = "exited"
    /\ exit_check' = [stop |-> stop_event, qsize |-> Len(publish_queue),
                      puts |-> put_count]
    /\ UNCHANGED <<message, published>>

\* ... or not self._publish_queue.empty(): the right operand, evaluated
\* when the event is set; the loop ends when the queue is empty.
PubCheckEmpty ==
    /\ pub_pc = "check_empty"
    /\ IF publish_queue = <<>>
       THEN /\ pub_pc' = "exited"
            /\ exit_check' = [stop |-> stop_event, qsize |-> Len(publish_queue),
                              puts |-> put_count]
       ELSE /\ pub_pc' = "get"
            /\ UNCHANGED exit_check
    /\ UNCHANGED <<message, published>>

\* A consumer that takes the newest message of the queue, not the oldest.
PubGet_newest ==
    /\ pub_pc = "get"
    /\ IF publish_queue = <<>>
       THEN /\ pub_pc' = "check_stop"
            /\ UNCHANGED <<message, publish_queue>>
       ELSE /\ message' = publish_queue[Len(publish_queue)]
            /\ publish_queue' = SubSeq(publish_queue, 1, Len(publish_queue) - 1)
            /\ pub_pc' = "publish"
    /\ UNCHANGED <<published, exit_check>>

\* A consumer that waits in self._publish_queue.get() with no timeout: it
\* returns only with a message.
PubGet_blocking ==
    /\ pub_pc = "get"
    /\ publish_queue /= <<>>
    /\ message' = Head(publish_queue)
    /\ publish_queue' = Tail(publish_queue)
    /\ pub_pc' = "publish"
    /\ UNCHANGED <<published, exit_check>>

\* message = self._publish_queue.get(timeout=0.5); queue.Empty: continue.
PubGet ==
    /\ pub_pc = "get"
    /\ IF publish_queue = <<>>
       THEN /\ pub_pc' = "check_stop"
            /\ UNCHANGED <<message, publish_queue>>
       ELSE /\ message' = Head(publish_queue)
            /\ publish_queue' = Tail(publish_queue)
            /\ pub_pc' = "publish"
    /\ UNCHANGED <<published, exit_check>>

\* How a call of MQTTClient.publish ends: the transport accepts the
\* message, reports a failure code, or raises.
Outcomes == {"ok", "rc", "raise"}

\* A loop that calls self.mqtt.publish(message) with no try/except: an
\* exception ends the publisher thread.
publish_unguarded(outcome) ==
    /\ pub_pc = "publish"
    /\ published' = [published EXCEPT ![message.src] = Append(@, message.seq)]
    /\ pub_pc' = IF outcome = "raise" THEN "exited" ELSE "check_stop"
    /\ UNCHANGED <<message, exit_check, publish_queue>>

\* self.mqtt.publish(message) ending in `outcome`: a failure code is logged
\* by MQTTClient.publish, an exception by the loop; the loop goes on.
publish(outcome) ==
    /\ pub_pc = "publish"
    /\ published' = [published EXCEPT ![message.src] = Append(@, message.seq)]
    /\ pub_pc' = "check_stop"
    /\ UNCHANGED <<message, exit_check, publish_queue>>

PubPublish == \E outcome \in Outcomes : publish(outcome)

Publisher ==
    /\ \/ PubCheckStop /\ UNCHANGED publish_queue
       \/ PubCheckEmpty /\ UNCHANGED publish_queue
       \/ PubGet
       \/ PubPublish
    /\ UNCHANGED <<schedVars, stop_pc, enabled, main_pc, stop_event,
                   published_discovery_topics, receiving, stops, stop_puts,
                   put_count, cmdVars, pollVars, seenVars>>

\* The publisher thread's steps, the outcome of each publish call recorded.
PublisherSeen ==
    /\ \/ PubCheckStop /\ UNCHANGED <<publish_queue, last_outcome>>
       \/ PubCheckEmpty /\ UNCHANGED <<publish_queue, last_outcome>>
       \/ PubGet /\ UNCHANGED last_outcome
       \/ \E outcome \in Outcomes : publish(outcome) /\ last_outcome' = outcome
    /\ UNCHANGED <<schedVars, stop_pc, enabled, main_pc, stop_event,
                   published_discovery_topics, receiving, stops, stop_puts,
                   put_count, cmdVars, pollVars, executions, extraction,
                   loaded>>

\* --- the poll tasks, run by the scheduler loop thread.

NoneBody == HttpBody(None_)

\* Answers of the status endpoint: a status block, a body that is no
\* mapping, an HTTP error status, no connection.
SequenceStatus ==
    Dict(<<Item("Response", Dict(<<Item("Status", Str("RUNNING")),
                                   Item("Name", None_)>>)),
           Item("StatusCode", PyInt(200)),
           Item("Success", Bool(TRUE))>>)

StatusAnswers ==
    {HttpBody(SequenceStatus), HttpBody(List(<<None_>>)), HttpError,
     HttpNoConnection}

\* Answers of an image endpoint.
ImageAnswers == {HttpBody([b |-> "jpeg", t |-> "bytes"]), HttpError,
                 HttpNoConnection}

PollDurations == {0}

\* The task action partial(self._poll_device, device) runs, its status
\* request comes to `http` and it returns `r` after `dur` ticks.
PollDeviceReturns(http, dur, r) ==
    /\ TaskCompletes(r.raised, dur)
    /\ Put("scheduler", r.msgs)
    /\ published_discovery_topics' = r.topics
    /\ last_poll' = [device |-> tasks[sched_i].fn.device,
                     failed |-> http.kind /= "body", msgs |-> r.msgs,
                     values |-> r.values]
    /\ UNCHANGED <<stop_pc, enabled, main_pc, stop_event, receiving, stops,
                   stop_puts, pubVars, cmdVars, callers>>

PollDevice ==
    /\ sched_pc = "call"
    /\ tasks[sched_i].fn.kind = "_poll_device"
    /\ \E http \in StatusAnswers, dur \in PollDurations :
          \E r \in {_poll_device(tasks[sched_i].fn.device, http,
                                  published_discovery_topics)} :
             PollDeviceReturns(http, dur, r)
    /\ UNCHANGED seenVars

PollImage ==
    /\ sched_pc = "call"
    /\ tasks[sched_i].fn.kind = "_poll_image"
    /\ \E http \in ImageAnswers, dur \in PollDurations :
          LET r == _poll_image(tasks[sched_i].fn.device, http) IN
          /\ TaskCompletes(r.raised, dur)
          /\ Put("scheduler", r.msgs)
          /\ last_poll' = [device |-> tasks[sched_i].fn.device,
                           failed |-> http.kind /= "body", msgs |-> r.msgs,
                           values |-> <<>>]
    /\ UNCHANGED <<stop_pc, enabled, main_pc, stop_event,
                   published_discovery_topics, receiving, stops, stop_puts,
                   pubVars, cmdVars, callers, seenVars>>

\* --- inbound commands, on the transport's thread.

Json(value) == [t |-> "json", value |-> value]

Action(name) == Json(Dict(<<Item("action", Str(name))>>))

CommandAnswers ==
    {HttpBody(Dict(<<Item("Success", Bool(TRUE))>>)), HttpBody(Dict(<<>>)),
     HttpError, HttpNoConnection}

\* The handler runs for a message on {base}/{device}/command.
HandleCommand(device, payload, http) ==
    /\ receiving
    /\ cmds < MaxCmds
    /\ cmds' = cmds + 1
    /\ LET r == _handle_command(render_command_topic(device), payload, http) IN
       /\ Put("mqtt", r.msgs)
       /\ last_cmd' = [device |-> r.device, payload |-> payload,
                       http |-> http, called |-> r.called, escaped |-> r.escaped,
                       msgs |-> r.msgs]
    /\ UNCHANGED <<schedVars, stop_pc, enabled, main_pc, stop_event,
                   published_discovery_topics, receiving, stops, stop_puts,
                   pubVars, pollVars, seenVars>>

\* --------------------------------------------------- the bridge as main.py runs it

\* The command a run of the whole bridge receives: a supported action that
\* the device API answers.
Command ==
    HandleCommand("mount", Action("park"),
                  HttpBody(Dict(<<Item("Success", Bool(TRUE))>>)))

\* The configurations: any subset of Devices enabled.
Configured ==
    enabled \in {[d \in Range(DEFAULT_DEVICE_TYPES) |-> d \in on] :
                   on \in SUBSET Devices}

\* The process starts when the clock has passed every task's first due time.
Init ==
    /\ SchedInit
    /\ clock = Seconds(3)
    /\ stop_pc = "none"
    /\ BridgeInit
    /\ loaded = EverySecond
    /\ extraction = NoExtraction
    /\ Configured

StartUp ==
    \/ StartConfigure
    \/ StartSubscribe
    \/ StartDiscovery
    \/ StartPublisher
    \/ StartSchedule
    \/ StartScheduler

Shutdown ==
    \/ StopCall
    \/ StopScheduler
    \/ StopSchedulerJoined
    \/ StopDevicesOff
    \/ StopBridgeOff
    \/ StopSetEvent
    \/ StopPublisherJoined
    \/ StopDisconnect

Polls == PollDevice \/ PollImage

Next ==
    \/ StartUp
    \/ Shutdown
    \/ Publisher
    \/ SchedLoop
    \/ Polls
    \/ Command

Spec == Init /\ [][Next]_vars

\* --- the bridge polling, with no signal and no inbound command

InitPolls ==
    /\ SchedInit
    /\ clock \in BootClocks
    /\ stop_pc = "none"
    /\ BridgeInit
    /\ loaded = EverySecond
    /\ extraction = NoExtraction
    /\ Configured

NextPolls ==
    \/ StartUp
    \/ Publisher
    \/ SchedLoop
    \/ Polls

SpecPolls == InitPolls /\ [][NextPolls]_vars

\* --- the command handler, with no poll and no signal

CommandDevices == {"mount", "sequence", "screenshot", "camera"}

CommandPayloads ==
    {[t |-> "undecodable"], [t |-> "empty"], [t |-> "invalid"],
     Json(List(<<>>)), Json(None_), Json(Dict(<<>>)),
     Action("park"), Action("PARK"), Action("warp"), Action("start"),
     Action("tracking"),
     Json(Dict(<<Item("action", Str("tracking")), Item("mode", Str("Lunar"))>>)),
     Json(Dict(<<Item("action", Str("track")), Item("mode", PyInt(9))>>)),
     Json(Dict(<<Item("action", PyInt(5))>>)),
     Json(Dict(<<Item("action", None_)>>))}

AnyCommand ==
    \E device \in CommandDevices, payload \in CommandPayloads,
       http \in CommandAnswers :
       HandleCommand(device, payload, http)

NextCmd ==
    \/ StartUp
    \/ Publisher
    \/ AnyCommand

\* No device is polled: the queue holds the bridge's own messages only.
InitCmd ==
    /\ SchedInit
    /\ clock = 0
    /\ stop_pc = "none"
    /\ BridgeInit
    /\ loaded = EverySecond
    /\ extraction = NoExtraction
    /\ enabled = [d \in Range(DEFAULT_DEVICE_TYPES) |-> FALSE]

SpecCmd == InitCmd /\ [][NextCmd]_vars

\* ------------------------------------------- a Scheduler used on its own

\* Intervals and durations of the tasks of a stand-alone Scheduler, ticks.
Intervals == {2, Seconds(1), Seconds(1) + 10}

Durations == {0, 3}

\* The action of a task of a stand-alone Scheduler: any callable.
AnyFn == [kind |-> "any", device |-> ""]

CallerAddTask ==
    /\ stop_pc = "none"
    /\ Len(tasks) < MaxTasks
    /\ \E iv \in Intervals :
          add_task(ScheduledTask(Len(tasks) + 1, iv, AnyFn))
    /\ UNCHANGED <<lock_held, sched_stop_event, sched_pc, sched_i, sched_now,
                   next_delay, clock, running, last_done, stop_pc, bridgeVars>>

CallerStart ==
    /\ stop_pc = "none"
    /\ Scheduler_start
    /\ UNCHANGED <<tasks, lock_held, sched_stop_event, sched_i, sched_now,
                   next_delay, clock, running, last_done, stop_pc, bridgeVars>>

CallerStop ==
    /\ stop_pc = "none"
    /\ Scheduler_stop_set
    /\ stop_pc' = "scheduler.join"
    /\ UNCHANGED <<tasks, lock_held, sched_pc, sched_i, sched_now,
                   next_delay, clock, running, last_done, bridgeVars>>

CallerJoined ==
    /\ stop_pc = "scheduler.join"
    /\ Scheduler_join_returns
    /\ stop_pc' = "none"
    /\ UNCHANGED <<schedVars, bridgeVars>>

\* A task action of any kind: it takes some time and returns or raises.
AnyTask ==
    /\ \E raised \in BOOLEAN, dur \in Durations : TaskCompletes(raised, dur)
    /\ UNCHANGED <<stop_pc, bridgeVars>>

InitSched ==
    /\ SchedInit
    /\ clock \in BootClocks
    /\ stop_pc = "none"
    /\ BridgeInit
    /\ loaded = EverySecond
    /\ extraction = NoExtraction
    /\ enabled = [d \in Range(DEFAULT_DEVICE_TYPES) |-> FALSE]

NextSched ==
    \/ CallerAddTask
    \/ CallerStart
    \/ CallerStop
    \/ CallerJoined
    \/ SchedLoop
    \/ AnyTask

SpecSched == InitSched /\ [][NextSched]_vars

\* --------------- _publish_device_discovery, statement by statement, with
\* --------------- a caller on each of two threads

\* _publish_device_discovery(device, extra_keys) is entered by thread t: the
\* messages are built, the loop `for msg in messages` begins.
DiscoveryEnter(t) ==
    /\ callers[t].pc = "return"
    /\ \E device \in Devices, extra_keys \in {<<>>, <<"status", "name">>} :
          callers' = [callers EXCEPT ![t] =
                        [pc |-> "for", i |-> 1,
                         messages |-> DiscoveryMessages(device, extra_keys)]]
    /\ UNCHANGED <<published_discovery_topics, queueVars>>

\* for msg in messages: if msg.topic in self._published_discovery_topics:
\* continue
DiscoveryFor(t) ==
    LET c == callers[t] IN
    /\ c.pc = "for"
    /\ callers' = [callers EXCEPT ![t] =
          IF c.i > Len(c.messages) THEN Outside
          ELSE IF c.messages[c.i].topic \in published_discovery_topics
          THEN [c EXCEPT !.i = c.i + 1]
          ELSE [c EXCEPT !.pc = "add"]]
    /\ UNCHANGED <<published_discovery_topics, queueVars>>

\* self._published_discovery_topics.add(msg.topic)
DiscoveryAdd(t) ==
    LET c == callers[t] IN
    /\ c.pc = "add"
    /\ published_discovery_topics' =
          published_discovery_topics \cup {c.messages[c.i].topic}
    /\ callers' = [callers EXCEPT ![t].pc = "put"]
    /\ UNCHANGED queueVars

\* self._publish_queue.put(msg)
DiscoveryPut(t) ==
    LET c == callers[t] IN
    /\ c.pc = "put"
    /\ Put(t, <<c.messages[c.i]>>)
    /\ callers' = [callers EXCEPT ![t] = [c EXCEPT !.pc = "for", !.i = c.i + 1]]
    /\ UNCHANGED published_discovery_topics

\* What no statement of _publish_device_discovery touches.
aside == <<schedVars, stop_pc, enabled, main_pc, stop_event, receiving,
           stops, stop_puts, pubVars, cmdVars, last_poll,
           seenVars>>

CallerEnters == \E t \in Callers : DiscoveryEnter(t) /\ UNCHANGED aside

CallerTests == \E t \in Callers : DiscoveryFor(t) /\ UNCHANGED aside

CallerAdds == \E t \in Callers : DiscoveryAdd(t) /\ UNCHANGED aside

CallerPuts == \E t \in Callers : DiscoveryPut(t) /\ UNCHANGED aside

InitDiscovery ==
    /\ SchedInit
    /\ clock = 0
    /\ stop_pc = "none"
    /\ BridgeInit
    /\ loaded = EverySecond
    /\ extraction = NoExtraction
    /\ Configured

NextDiscovery ==
    \/ CallerEnters
    \/ CallerTests
    \/ CallerAdds
    \/ CallerPuts

SpecDiscovery == InitDiscovery /\ [][NextDiscovery]_vars

\* ------------------------------------------------------------ properties

\* The messages the step enqueues: those of the queue after it that their
\* producer had not numbered before it.
Enqueued ==
    LET q == publish_queue' IN
    {q[i] : i \in {j \in DOMAIN q : q[j].seq > put_count[q[j].src]}}

\* A message on a discovery topic, {discovery_prefix}/...
IsDiscovery(m) == m.topic[1] = discovery_prefix

\* An availability "OFF" message of `device` ("bridge" for the bridge).
IsOff(m, device) ==
    /\ m.topic = <<base_topic, device, "availability">>
    /\ m.payload = Text("OFF")

\* C1: the messages one producer thread enqueues are handed to
\* MQTTClient.publish in the order the thread enqueued them, whatever the
\* other producers do: per producer, the numbers of the messages published
\* so far are increasing.
C1_ProducerOrder ==
    \A p \in Producers :
       \A i, j \in DOMAIN published[p] :
          i < j => published[p][i] < published[p][j]

\* Messages of all three producers have been published, interleaved.
C1_Witness ==
    /\ Len(published["main"]) >= 3
    /\ Len(published["scheduler"]) >= 2
    /\ Len(published["mqtt"]) >= 1

\* C2: once the publisher loop has exited, the stop event was set and the
\* queue was empty at its last loop test, and every message enqueued before
\* that test has been handed to MQTTClient.publish.
C2_GracefulDrain ==
    pub_pc = "exited" =>
       /\ exit_check.stop
       /\ exit_check.qsize = 0
       /\ \A p \in Producers :
             \A k \in 1 .. exit_check.puts[p] : k \in Range(published[p])

\* The loop has exited after messages of the main thread (stop() among
\* them) and of a poll were enqueued.
C2_Witness ==
    /\ pub_pc = "exited"
    /\ stop_puts /= <<>>
    /\ exit_check.puts["main"] >= 3
    /\ exit_check.puts["scheduler"] >= 1

\* C3: over start() and the polls, a discovery message is enqueued only for
\* a topic that is not in the record, the step that enqueues it puts the
\* topic in the record, no step enqueues two messages for one topic, a topic
\* enters the record only with its message, and no topic leaves the record.
C3_DiscoveryOnce ==
    [][/\ published_discovery_topics \subseteq published_discovery_topics'
       /\ \A m \in Enqueued :
             IsDiscovery(m) =>
                /\ m.topic \notin published_discovery_topics
                /\ m.topic \in published_discovery_topics'
                /\ \A n \in Enqueued : n.topic = m.topic => n = m
       /\ \A t \in published_discovery_topics' \ published_discovery_topics :
             \E m \in Enqueued : m.topic = t]_vars

\* A poll of the sequence device after start() announced it: the poll
\* triggered discovery and enqueued state and availability only.
C3_Witness ==
    /\ last_poll.device = "sequence"
    /\ ~last_poll.failed
    /\ Len(last_poll.msgs) >= 2
    /\ \A i \in DOMAIN last_poll.msgs : ~IsDiscovery(last_poll.msgs[i])
    /\ \E t \in published_discovery_topics : t[3] = device_identifier("sequence")

\* C4: with callers of _publish_device_discovery on two threads, a
\* discovery topic is enqueued by one of them only: no two messages of the
\* queue are on the same discovery topic.
C4_AtomicCheckThenAdd ==
    \A i, j \in DOMAIN publish_queue :
       (IsDiscovery(publish_queue[i]) /\
        publish_queue[i].topic = publish_queue[j].topic) => i = j

\* C5: at most one task action is executing.
C5_SerialExecution == Cardinality(running) <= 1

\* The action of one of two tasks is executing after the other task's
\* action has completed in the same Scheduler.
C5_Witness ==
    /\ Len(tasks) >= 2
    /\ running /= {}
    /\ last_done.task /= 0
    /\ last_done.task \notin running

\* C6: when a task action ends, raising or not, the loop goes on with its
\* pass, the task stays in the task set with last_run the time the action
\* ended, every other task is as it was, and next_delay is lowered by the
\* task's interval; and an action is called only when its task's interval
\* has passed since last_run.
C6_FailureIsolation ==
    [][/\ (sched_pc = "call" /\ sched_pc' /= "call") =>
             /\ sched_pc' = "pass"
             /\ sched_i' = sched_i + 1
             /\ DOMAIN tasks' = DOMAIN tasks
             /\ tasks'[sched_i] = [tasks[sched_i] EXCEPT !.last_run = clock']
             /\ \A j \in DOMAIN tasks : j /= sched_i => tasks'[j] = tasks[j]
             /\ next_delay' = Min(next_delay, Max(tasks[sched_i].interval, Floor))
       /\ (sched_pc = "pass" /\ sched_pc' = "call") =>
             tasks[sched_i].last_run + tasks[sched_i].interval <= sched_now]_vars

\* The action of a task is executing again after its previous execution
\* raised, one interval or more later.
C6_Witness ==
    /\ last_done.raised
    /\ last_done.task \in running
    /\ sched_now >= last_done.ended + tasks[last_done.task].interval

\* C7: a poll whose device API call failed enqueues an availability "OFF"
\* message for its device.
C7_FailedPollEnqueuesOff ==
    last_poll.failed =>
       \E i \in DOMAIN last_poll.msgs : IsOff(last_poll.msgs[i], last_poll.device)

\* The "OFF" messages a call of stop() has enqueued for `device`.
OffCount(device) ==
    Cardinality({i \in DOMAIN stop_puts : IsOff(stop_puts[i], device)})

\* C8: a call of stop() enqueues one availability "OFF" message per enabled
\* device, one for the bridge, none for a device that is not enabled, and
\* nothing else: never more while it runs, exactly these when it has
\* returned.
C8_StopAvailability ==
    LET on == {d \in Range(DEFAULT_DEVICE_TYPES) : enabled[d]} IN
    /\ \A d \in Range(DEFAULT_DEVICE_TYPES) :
          OffCount(d) <= IF d \in on THEN 1 ELSE 0
    /\ OffCount("bridge") <= 1
    /\ (stops > 0 /\ stop_pc = "none") =>
          /\ \A d \in on : OffCount(d) = 1
          /\ OffCount("bridge") = 1
          /\ Len(stop_puts) = Cardinality(on) + 1

\* stop() has returned with one device enabled and another disabled.
C8_Witness ==
    /\ stops > 0
    /\ stop_pc = "none"
    /\ enabled["sequence"]
    /\ ~enabled["screenshot"]
    /\ Len(stop_puts) = 2

\* The current call of stop() has enqueued "OFF" for every enabled device
\* and for the bridge.
AllOffEnqueued ==
    /\ \A d \in Range(DEFAULT_DEVICE_TYPES) : enabled[d] => OffCount(d) >= 1
    /\ OffCount("bridge") >= 1

\* C9 as stated: the Scheduler is told to stop only after "OFF" has been
\* enqueued for every enabled device and the bridge, and the publisher loop
\* is told to stop only after the Scheduler.
C9_OffBeforeSchedulerStop ==
    /\ sched_stop_event => AllOffEnqueued
    /\ stop_event => sched_stop_event

\* C9: stop() enqueues an availability "OFF" message only after the
\* Scheduler was told to stop, sets the publisher's stop event only after
\* that and after "OFF" has been enqueued for every enabled device and the
\* bridge, and waits for the publisher thread only with the event set.
C9_SchedulerStopFirst ==
    [][/\ (stop_puts' /= stop_puts /\ stop_puts' /= <<>>) => sched_stop_event
       /\ (~stop_event /\ stop_event') => (sched_stop_event /\ AllOffEnqueued)
       /\ (stop_pc /= stop_pc' /\ stop_pc' = "_publisher_thread.join") =>
             stop_event']_vars

\* stop() waits for the publisher thread, the Scheduler told to stop and
\* "OFF" enqueued for an enabled device and the bridge.
C9_Witness ==
    /\ stop_pc = "_publisher_thread.join"
    /\ enabled["sequence"]
    /\ sched_stop_event
    /\ stop_event
    /\ AllOffEnqueued

\* The payload of a command is a JSON object.
WellFormed(payload) ==
    /\ ~json_loads(payload).raised
    /\ json_loads(payload).value.t = "dict"

\* C10: for a command whose payload is a JSON object, when send_command
\* returns a non-empty result the handler enqueues one message on
\* {base}/{device}/command_response and none on {base}/{device}/command/error;
\* when send_command raises, one on the error topic and none on
\* command_response; each with retain=False and qos 0.
C10_CommandOutcome ==
    (last_cmd /= NoCommand /\ WellFormed(last_cmd.payload)) =>
       LET result == send_command(last_cmd.device,
                                  json_loads(last_cmd.payload).value,
                                  last_cmd.http)
           msgs == last_cmd.msgs
           on(topic) == {i \in DOMAIN msgs : msgs[i].topic = topic}
           response == <<base_topic, last_cmd.device, "command_response">>
           error == <<base_topic, last_cmd.device, "command", "error">>
           plain == \A i \in DOMAIN msgs : ~msgs[i].retain /\ msgs[i].qos = 0
       IN  /\ (~result.raised /\ Truthy(result.value)) =>
                 /\ Cardinality(on(response)) = 1
                 /\ on(error) = {}
                 /\ plain
           /\ result.raised =>
                 /\ Cardinality(on(error)) = 1
                 /\ on(response) = {}
                 /\ plain

\* {"action": "park"} for the mount, answered by the device API with a
\* non-empty result: one message, on command_response.
C10_Witness ==
    /\ last_cmd.device = "mount"
    /\ last_cmd.payload = Action("park")
    /\ last_cmd.called
    /\ last_cmd.http = HttpBody(Dict(<<Item("Success", Bool(TRUE))>>))
    /\ Len(last_cmd.msgs) = 1
    /\ last_cmd.msgs[1].topic = <<base_topic, "mount", "command_response">>

\* C11: a command whose payload is a JSON object enqueues at most one
\* message, on {base}/{device}/command_response or on
\* {base}/{device}/command/error, and none exactly when send_command
\* returned an empty result.
C11_OneOutcome ==
    (last_cmd /= NoCommand /\ WellFormed(last_cmd.payload)) =>
       LET result == send_command(last_cmd.device,
                                  json_loads(last_cmd.payload).value,
                                  last_cmd.http)
           msgs == last_cmd.msgs
       IN  /\ Len(msgs) <= 1
           /\ \A i \in DOMAIN msgs :
                 msgs[i].topic \in
                    {<<base_topic, last_cmd.device, "command_response">>,
                     <<base_topic, last_cmd.device, "command", "error">>}
           /\ (msgs = <<>>) <=> (~result.raised /\ ~Truthy(result.value))

\* {"action": "park"} for the mount, answered by the device API with an
\* empty object: the API was called and nothing is enqueued.
C11_Witness ==
    /\ last_cmd.device = "mount"
    /\ last_cmd.payload = Action("park")
    /\ last_cmd.called
    /\ last_cmd.http = HttpBody(Dict(<<>>))
    /\ last_cmd.msgs = <<>>

\* C12: a command whose payload is not a JSON object (undecodable bytes,
\* invalid JSON, JSON of another type) makes no device API call and
\* enqueues nothing.
C12_MalformedDropped ==
    (last_cmd /= NoCommand /\ ~WellFormed(last_cmd.payload)) =>
       (~last_cmd.called /\ last_cmd.msgs = <<>>)

\* C13: every task of the Scheduler polls an enabled device, and every
\* discovery message enqueued is for an enabled device: none for a value or
\* the image entity of a device configured enabled=false.
C13_DisabledSilent ==
    [][/\ \A i \in DOMAIN tasks' : enabled[tasks'[i].fn.device]
       /\ \A m \in Enqueued :
             IsDiscovery(m) =>
                \E d \in Devices :
                   enabled[d] /\ m.topic[3] = device_identifier(d)]_vars

\* The sequence device enabled and the screenshot disabled: one task, and
\* the sequence has been announced and polled.
C13_Witness ==
    /\ enabled["sequence"]
    /\ ~enabled["screenshot"]
    /\ Len(tasks) = 1
    /\ last_poll.device = "sequence"
    /\ ~last_poll.failed
    /\ published_discovery_topics /= {}

\* C14: once start() has been called no task is added: a step taken after
\* the loop thread was created leaves the task list as long as it was.
C14_FixedAfterStart ==
    [][sched_pc /= "none" => DOMAIN tasks' = DOMAIN tasks]_vars

\* ------------------- the publisher, the outcome of each publish observed

NextPub ==
    \/ StartUp
    \/ PublisherSeen
    \/ Command

SpecPub == Init /\ [][NextPub]_vars

\* C15: when a call of MQTTClient.publish fails (failure code or
\* exception) the loop goes back to its test, the message is not put back
\* on the queue, and the message the loop takes next is the head of the
\* queue.
C15_FailedPublishDropped ==
    [][/\ (pub_pc = "publish" /\ pub_pc' /= "publish" /\ last_outcome' /= "ok") =>
             /\ pub_pc' = "check_stop"
             /\ publish_queue' = publish_queue
             /\ \A i \in DOMAIN publish_queue' : publish_queue'[i] /= message
       /\ (pub_pc = "get" /\ pub_pc' = "publish") =>
             /\ message' = Head(publish_queue)
             /\ message' /= message
             /\ publish_queue' = Tail(publish_queue)]_vars

\* After a publish call that failed, the loop has taken the next message
\* and is about to publish it.
C15_Witness ==
    /\ last_outcome \in {"rc", "raise"}
    /\ pub_pc = "publish"
    /\ published[message.src] /= <<>>

\* C16: every message put on the queue is handed to MQTTClient.publish
\* once: no message is published twice, and once the publisher loop has
\* exited (nothing is taken off the queue any more) no message is on the
\* queue.
C16_ConsumedExactlyOnce ==
    /\ \A p \in Producers :
          \A i, j \in DOMAIN published[p] :
             published[p][i] = published[p][j] => i = j
    /\ pub_pc = "exited" => publish_queue = <<>>

\* ------------- a Scheduler configured and then started, as Bridge.start
\* ------------- does, the executions of each task counted

\* add_task before start(), as _schedule_polls before scheduler.start().
ConfigureTask ==
    /\ sched_pc = "none"
    /\ CallerAddTask

\* A task action ends and is counted.
CountedTask ==
    /\ \E raised \in BOOLEAN, dur \in Durations : TaskCompletes(raised, dur)
    /\ executions' = [executions EXCEPT !.count[sched_i] = @ + 1]
    /\ UNCHANGED <<stop_pc, enabled, main_pc, stop_event,
                   published_discovery_topics, receiving, stops, stop_puts,
                   queueVars, pubVars, cmdVars, pollVars, last_outcome,
                   extraction, loaded>>

InitDrift ==
    /\ SchedInit
    /\ clock \in BootClocks
    /\ stop_pc = "none"
    /\ BridgeInit
    /\ loaded = EverySecond
    /\ extraction = NoExtraction
    /\ enabled = [d \in Range(DEFAULT_DEVICE_TYPES) |-> FALSE]

NextDrift ==
    \/ ConfigureTask
    \/ CallerStart
    \/ SchedLoop
    \/ CountedTask

SpecDrift == InitDrift /\ [][NextDrift]_vars

\* C17 as stated: once a run has lasted ten intervals of a task or more, the
\* number of executions of the task differs from elapsed/interval by at most
\* one.
C17_BoundedDrift ==
    \A i \in DOMAIN tasks :
       LET elapsed == clock - executions.since
           ran == executions.count[i] * tasks[i].interval
       IN  elapsed >= 10 * tasks[i].interval =>
              /\ ran <= elapsed + tasks[i].interval
              /\ elapsed <= ran + tasks[i].interval

\* C17: at every moment the number of executions of each task is at most
\* elapsed/interval plus one.
C17_NeverAhead ==
    \A i \in DOMAIN tasks :
       (executions.count[i] - 1) * tasks[i].interval <= clock - executions.since

\* Two tasks, one of which has run twice or more and is more than one
\* execution behind elapsed/interval.
C17_Witness ==
    /\ Len(tasks) >= 2
    /\ \E i \in DOMAIN tasks :
          /\ executions.count[i] >= 2
          /\ (executions.count[i] + 1) * tasks[i].interval
                < clock - executions.since

\* C18: the last_run of the task whose action completed most recently is the
\* time that action completed, and an action that is executing began one
\* interval or more after its task's last_run, the completion of the task's
\* previous execution.
C18_CompletionToNextStart ==
    /\ last_done.task /= 0 =>
          tasks[last_done.task].last_run = last_done.ended
    /\ \A i \in running : clock >= tasks[i].last_run + tasks[i].interval

\* A task's action is executing again after its previous execution, which
\* took time, completed one interval or more ago.
C18_Witness ==
    /\ last_done.task \in running
    /\ last_done.ended > last_done.begun
    /\ tasks[last_done.task].last_run = last_done.ended
    /\ clock >= last_done.ended + tasks[last_done.task].interval

\* A Scheduler that is configured, started and stopped, as Bridge.start and
\* Bridge.stop use it, in the last second of the time the model covers (every
\* task is due when the loop starts). The loop thread is a thread of its own, so it keeps
\* taking its steps, and every task action returns or raises in the end.
InitStop ==
    /\ SchedInit
    /\ clock = MaxTime - Seconds(1)
    /\ stop_pc = "none"
    /\ BridgeInit
    /\ loaded = EverySecond
    /\ extraction = NoExtraction
    /\ enabled = [d \in Range(DEFAULT_DEVICE_TYPES) |-> FALSE]

NextStop ==
    \/ ConfigureTask
    \/ CallerStart
    \/ CallerStop
    \/ CallerJoined
    \/ SchedLoop
    \/ AnyTask

SpecStop ==
    InitStop /\ [][NextStop]_vars /\ WF_vars(SchedLoop) /\ WF_vars(AnyTask)

\* C19: an action that has been called leaves the call only by completing,
\* with the loop going on with its pass whether or not stop() was called;
\* stop() returns only when the loop thread is not alive or an action is
\* still in flight after the join timeout; and once stop() has set the
\* event, a loop thread that is alive exits in the end.
C19_StopWaitsForAction ==
    /\ [][/\ sched_pc = "call" /\ sched_pc' /= "call" =>
                /\ sched_pc' = "pass"
                /\ last_done'.task = sched_i
                /\ last_done'.ended = clock'
                /\ running' = running \ {sched_i}
          /\ stop_pc = "scheduler.join" /\ stop_pc' /= "scheduler.join" =>
                ~ThreadAlive \/ sched_pc = "call"]_vars
    /\ (sched_stop_event /\ ThreadAlive) ~> ~ThreadAlive

\* stop() has returned on the join timeout, the event is set and a task
\* action is still executing.
C19_Witness ==
    /\ stop_pc = "none"
    /\ sched_stop_event
    /\ sched_pc = "call"
    /\ running /= {}

\* ------------------------------- extract_state_values on its own

\* Device kinds: four with sensor definitions, one without.
ExtractDevices == {"camera", "mount", "sequence", "switch", "livestack"}

\* Values of the "Response" key of a status.
ResponseValues ==
    {Dict(<<>>),
     Dict(<<Item("Temperature", Num(-50))>>),
     Dict(<<Item("TargetTemp", Num(-100)), Item("Temperature", Num(-50))>>),
     Dict(<<Item("TargetTemp", Num(-100)), Item("target_temp", Num(-150))>>),
     Dict(<<Item("Name", Str("x")), Item("Connected", Bool(TRUE))>>),
     Dict(<<Item("HoursToMeridian", Num(15))>>),
     Dict(<<Item("HoursToMeridian", Num(15)),
            Item("HoursToMeridianString", Str("x"))>>),
     Dict(<<Item("TimeToMeridianFlip", Num(30)), Item("time_to_flip", Num(40))>>),
     Dict(<<Item("Status", Str("x")), Item("name", Str("x"))>>),
     Dict(<<Item("Connected", Bool(TRUE)),
            Item("ReadonlySwitches",
                 List(<<Dict(<<Item("Name", Str("x")), Item("Value", Num(10))>>),
                        Str("x")>>)),
            Item("WriteableSwitches",
                 List(<<Dict(<<Item("Id", PyInt(1))>>)>>))>>),
     Dict(<<Item("ReadonlySwitches", PyInt(1))>>),
     Str("x"),
     None_}

\* The items of a status beside "Response".
TopItems ==
    {<<>>,
     <<Item("Success", Bool(TRUE))>>,
     <<Item("Temperature", Num(20))>>,
     <<Item("Cooler", Dict(<<Item("On", Bool(TRUE))>>))>>,
     <<Item("Success", Bool(TRUE)),
       Item("Cooler", Dict(<<Item("On", Bool(TRUE))>>))>>,
     <<Item("Error", Str("")), Item("StatusCode", PyInt(200))>>}

\* The status argument: a mapping with or without "Response", or what a
\* body that is not a JSON object parses to.
Statuses ==
    {Dict(top) : top \in TopItems}
       \cup {Dict(top \o <<Item("Response", r)>>) :
                top \in TopItems, r \in ResponseValues}
       \cup {None_, List(<<>>), Str("x")}

\* extract_state_values(device, status) is called and returns or raises.
Extract ==
    /\ ~extraction.done
    /\ LET result == extract_state_values(extraction.device, extraction.status)
       IN  extraction' = [extraction EXCEPT !.done = TRUE,
                                            !.raised = result.raised,
                                            !.values = result.values]
    /\ UNCHANGED <<schedVars, stop_pc, enabled, main_pc, stop_event,
                   published_discovery_topics, receiving, stops, stop_puts,
                   queueVars, pubVars, cmdVars, pollVars, last_outcome,
                   executions, loaded>>

InitExtract ==
    /\ SchedInit
    /\ clock = 0
    /\ stop_pc = "none"
    /\ BridgeInit
    /\ loaded = EverySecond
    /\ enabled = [d \in Range(DEFAULT_DEVICE_TYPES) |-> FALSE]
    /\ \E device \in ExtractDevices, status \in Statuses :
          extraction = [NoExtraction EXCEPT !.device = device,
                                            !.status = status]

NextExtract == Extract

SpecExtract == InitExtract /\ [][NextExtract]_vars

\* C20: for a device kind with sensor definitions and a status that is a
\* mapping, extraction returns a result; the result holds a configured name
\* exactly when the normal form of one of its candidates is a key of the
\* lookup built from the status, and the value it holds is the lookup's for
\* such a key.
C20_ExtractContract ==
    (/\ extraction.done
     /\ extraction.device \in SENSOR_DEVICES
     /\ extraction.status.t = "dict") =>
       /\ ~extraction.raised
       /\ LET defs == DEVICE_SENSORS(extraction.device)
              lookup == _build_lookup(extraction.status)
          IN  \A i \in DOMAIN defs :
                 LET candidates == defs[i].source \o <<defs[i].var>>
                     hits == {c \in DOMAIN candidates :
                                DictHas(lookup, _normalize(Spell(candidates[c])))}
                 IN  /\ DictHas(extraction.values, defs[i].var) <=> hits /= {}
                     /\ DictHas(extraction.values, defs[i].var) =>
                           \E c \in hits :
                              DictGet(extraction.values, defs[i].var)
                                = DictGet(lookup, _normalize(Spell(candidates[c])))

\* The lookup extract_state_values builds from `status or {}`.
LookupOf(status) ==
    _build_lookup(IF status.t = "dict" THEN status ELSE Dict(<<>>))

\* C21: the value extracted for a configured name is the lookup's entry of
\* the first candidate, aliases in declaration order and then the name
\* itself, whose normal form is a key of the lookup, whether or not later
\* candidates are keys of the lookup too.
C21_AliasPrecedence ==
    (extraction.done /\ ~extraction.raised
       /\ extraction.device \in SENSOR_DEVICES) =>
       LET defs == DEVICE_SENSORS(extraction.device)
           lookup == LookupOf(extraction.status)
           In(candidate) == DictHas(lookup, _normalize(Spell(candidate)))
       IN  \A i \in DOMAIN defs :
              LET candidates == defs[i].source \o <<defs[i].var>> IN
              \A c \in DOMAIN candidates :
                 (In(candidates[c]) /\ \A d \in 1 .. (c - 1) : ~In(candidates[d]))
                    => /\ DictHas(extraction.values, defs[i].var)
                       /\ DictGet(extraction.values, defs[i].var)
                            = DictGet(lookup, _normalize(Spell(candidates[c])))

\* The mount's hours_to_meridian was extracted from a status that holds both
\* its alias HoursToMeridianString and the name itself, with different
\* values: the alias's value was taken.
C21_Witness ==
    /\ extraction.done /\ ~extraction.raised
    /\ extraction.device = "mount"
    /\ LET lookup == LookupOf(extraction.status) IN
       /\ DictHas(lookup, _normalize(Spell("HoursToMeridianString")))
       /\ DictHas(lookup, _normalize(Spell("hours_to_meridian")))
       /\ DictGet(lookup, _normalize(Spell("HoursToMeridianString")))
            /= DictGet(lookup, _normalize(Spell("hours_to_meridian")))
       /\ DictGet(extraction.values, "hours_to_meridian")
            = DictGet(lookup, _normalize(Spell("HoursToMeridianString")))

\* C22: extraction of a status that is absent or not a mapping, or whose
\* "Response" is not a mapping, raises nothing; and its result is empty when
\* the status is not a mapping or holds nothing but that "Response".
C22_NonMappingIsEmpty ==
    LET status == extraction.status
        badEnvelope == /\ status.t = "dict"
                       /\ DictHas(status.items, "Response")
                       /\ DictGet(status.items, "Response").t /= "dict"
    IN  (extraction.done /\ (status.t /= "dict" \/ badEnvelope)) =>
           /\ ~extraction.raised
           /\ (status.t /= "dict" \/ Len(status.items) = 1) =>
                 extraction.values = <<>>

\* A message of the last poll on the state topic of value name `variable`.
IsStateOf(m, variable) ==
    m.topic = STATE_TOPIC_TEMPLATE(base_topic, last_poll.device, variable)

\* C23: a poll enqueues no state message for a value name whose extracted
\* value is null, and such a poll enqueues availability "ON" and no "OFF".
C23_NullNeverPublished ==
    \A v \in DOMAIN last_poll.values :
       last_poll.values[v].v.t = "none" =>
          /\ \A i \in DOMAIN last_poll.msgs :
                ~IsStateOf(last_poll.msgs[i], last_poll.values[v].k)
          /\ \E i \in DOMAIN last_poll.msgs :
                last_poll.msgs[i]
                  = PublishMessage(
                      render_device_availability_topic(last_poll.device),
                      Text("ON"), TRUE, 1)
          /\ \A i \in DOMAIN last_poll.msgs :
                ~IsOff(last_poll.msgs[i], last_poll.device)

\* A poll extracted a null for one value name and a value for another, and
\* enqueued the state of the other.
C23_Witness ==
    /\ \E v \in DOMAIN last_poll.values : last_poll.values[v].v.t = "none"
    /\ \E v \in DOMAIN last_poll.values, i \in DOMAIN last_poll.msgs :
          /\ last_poll.values[v].v.t /= "none"
          /\ IsStateOf(last_poll.msgs[i], last_poll.values[v].k)

\* The discovery topic of value name `variable` of `device`, on either
\* platform.
DiscoveryTopics(device, variable) ==
    {<<discovery_prefix, platform, device_identifier(device), variable,
       "config">> : platform \in {"sensor", "binary_sensor"}}

\* The non-null items of the values the last poll extracted.
Yielded ==
    LET notNone(item) == item.v.t /= "none" IN SelectSeq(last_poll.values, notNone)

\* C24 as stated: the first poll, when it succeeds and yields a value,
\* enqueues a discovery message for that value.
C24_FirstPollAnnounces ==
    [][(last_poll = NoPoll /\ last_poll' /= NoPoll) =>
          \A v \in DOMAIN Yielded' :
             \E m \in Enqueued :
                m.topic \in DiscoveryTopics(last_poll'.device, Yielded'[v].k)]_vars

\* The string form of a value: the text of a string, "true"/"false" of a
\* bool, str() of anything else.
StringForm(value) ==
    CASE value.t = "str"  -> Text(value.s)
      [] value.t = "bool" -> Text(IF value.b THEN "true" ELSE "false")
      [] OTHER            -> [t |-> "str()", of |-> value]

\* C24: the discovery message of a configured value name is on record
\* before any poll (start() enqueued it) and no poll enqueues one; a poll
\* that yields values enqueues, for each value that is not null, exactly one
\* message on {base}/{device}/{value_name}, retained, qos 0, carrying the
\* value's string form, and exactly one message on the device's
\* availability topic, retained, qos 1, "ON".
C24_PollPublishes ==
    LET msgs == last_poll.msgs
        device == last_poll.device
        On(topic) == {i \in DOMAIN msgs : msgs[i].topic = topic}
    IN  last_poll.values /= <<>> =>
           /\ \A i \in DOMAIN msgs : ~IsDiscovery(msgs[i])
           /\ \A v \in DOMAIN last_poll.values :
                 DiscoveryTopics(device, last_poll.values[v].k)
                    \cap published_discovery_topics /= {}
           /\ \A v \in DOMAIN Yielded :
                 LET topic == STATE_TOPIC_TEMPLATE(base_topic, device, Yielded[v].k)
                 IN  /\ Cardinality(On(topic)) = 1
                     /\ \A i \in On(topic) :
                           msgs[i] = PublishMessage(topic, StringForm(Yielded[v].v),
                                                    TRUE, 0)
           /\ LET topic == render_device_availability_topic(device) IN
              /\ Cardinality(On(topic)) = 1
              /\ \A i \in On(topic) :
                    msgs[i] = PublishMessage(topic, Text("ON"), TRUE, 1)

\* A poll that yielded a value has enqueued its state and "ON", and the
\* scheduler thread had enqueued messages before it.
C24_Witness ==
    /\ Yielded /= <<>>
    /\ put_count["scheduler"] > Len(last_poll.msgs)
    /\ \E i \in DOMAIN last_poll.msgs :
          last_poll.msgs[i].topic
            = STATE_TOPIC_TEMPLATE(base_topic, last_poll.device, Yielded[1].k)

\* A topic {base}/{device}/availability, of a device or of the bridge.
IsAvailabilityTopic(topic) == Len(topic) = 3 /\ topic[3] = "availability"

\* C25: every message enqueued on an availability topic has the payload "ON"
\* or "OFF", is retained and has qos 1.
C25_AvailabilityShape ==
    [][\A m \in Enqueued :
          IsAvailabilityTopic(m.topic) =>
             /\ m.payload \in {Text("ON"), Text("OFF")}
             /\ m.retain
             /\ m.qos = 1]_vars

\* The queue holds an "ON" a poll enqueued and an "OFF" stop() enqueued.
C25_Witness ==
    \E i, j \in DOMAIN publish_queue :
       /\ IsAvailabilityTopic(publish_queue[i].topic)
       /\ publish_queue[i].payload = Text("ON")
       /\ publish_queue[i].src = "scheduler"
       /\ IsAvailabilityTopic(publish_queue[j].topic)
       /\ publish_queue[j].payload = Text("OFF")
       /\ publish_queue[j].src = "main"

\* ------------------- main(): the configuration is loaded, then the Bridge
\* ------------------- is built from it and started

\* A device's section of the YAML file; NoSection: the file has none.
NoSection == [t |-> "absent"]

DeviceSections ==
    {NoSection,
     Dict(<<>>),
     Dict(<<Item("refresh_every", PyInt(-1))>>),
     Dict(<<Item("refresh_every", PyInt(0))>>),
     Dict(<<Item("refresh_every", PyInt(2))>>),
     Dict(<<Item("refresh_every", Num(5))>>),
     Dict(<<Item("enabled", Bool(FALSE))>>),
     Dict(<<Item("enabled", Bool(FALSE)), Item("refresh_every", PyInt(0))>>)}

\* The devices sections read: the kinds of Devices have any section, the
\* other kinds are disabled, one of them with or without a refresh_every
\* of 0.
DevicesSections ==
    {LET all == [i \in DOMAIN DEFAULT_DEVICE_TYPES |->
                   LET d == DEFAULT_DEVICE_TYPES[i] IN
                   Item(d, IF d \in Devices THEN of[d]
                           ELSE IF d = "weather" THEN weather
                           ELSE Dict(<<Item("enabled", Bool(FALSE))>>))]
         present(item) == item.v /= NoSection
     IN  SelectSeq(all, present) :
        of \in [Devices -> DeviceSections],
        weather \in {Dict(<<Item("enabled", Bool(FALSE))>>),
                     Dict(<<Item("enabled", Bool(FALSE)),
                            Item("refresh_every", PyInt(0))>>)}}

\* load_config: _build_devices returns the devices of the configuration, or
\* raises and main() ends with no Bridge.
LoadConfig ==
    /\ ~loaded.done
    /\ \E built \in {_build_devices(loaded.raw)} :
          /\ loaded' = [loaded EXCEPT !.done = TRUE,
                                      !.raised = built.raised,
                                      !.refresh_every = built.refresh_every]
          /\ enabled' = built.enabled
    /\ UNCHANGED <<schedVars, stop_pc, main_pc, stop_event,
                   published_discovery_topics, receiving, stops, stop_puts,
                   queueVars, pubVars, cmdVars, pollVars, last_outcome,
                   executions, extraction>>

\* bridge.start() of the Bridge built from the loaded configuration.
StartLoaded ==
    /\ loaded.done
    /\ ~loaded.raised
    /\ StartUp

InitConfig ==
    /\ SchedInit
    /\ clock = 0
    /\ stop_pc = "none"
    /\ BridgeInit
    /\ extraction = NoExtraction
    /\ enabled = NoDevices.enabled
    /\ \E raw \in DevicesSections :
          loaded = [raw |-> raw, done |-> FALSE, raised |-> FALSE,
                    refresh_every |-> NoDevices.refresh_every]

NextConfig == LoadConfig \/ StartLoaded

SpecConfig == InitConfig /\ [][NextConfig]_vars

\* The refresh_every a device's section asks for is zero or less.
AsksNonPositive(section) ==
    /\ section.t = "dict"
    /\ DictHas(section.items, "refresh_every")
    /\ LET x == DictGet(section.items, "refresh_every") IN
       \/ x.t = "int" /\ x.i <= 0
       \/ x.t = "num" /\ x.n <= 0

\* C26: once a configuration in which some device has refresh_every <= 0 has
\* been loaded, loading has raised, no device is configured and the
\* Scheduler has no task; and every task of a Scheduler has an interval
\* above zero and a name no other task of it has.
C26_PositiveIntervals ==
    /\ (loaded.done /\ \E i \in DOMAIN loaded.raw : AsksNonPositive(loaded.raw[i].v))
          => /\ loaded.raised
             /\ \A d \in Range(DEFAULT_DEVICE_TYPES) : ~enabled[d]
             /\ main_pc = "_configure_mqtt"
             /\ tasks = <<>>
    /\ \A i \in DOMAIN tasks :
          /\ tasks[i].interval > 0
          /\ \A j \in DOMAIN tasks : tasks[j].name = tasks[i].name => j = i

\* Loading has raised for a configuration whose only refresh_every of zero
\* or less belongs to a disabled device.
C26_Witness ==
    /\ loaded.done /\ loaded.raised
    /\ \E i \in DOMAIN loaded.raw :
          /\ AsksNonPositive(loaded.raw[i].v)
          /\ DictHas(loaded.raw[i].v.items, "enabled")
    /\ \A i \in DOMAIN loaded.raw :
          AsksNonPositive(loaded.raw[i].v) =>
             DictHas(loaded.raw[i].v.items, "enabled")

\* C27: no exception leaves the command handler, whatever the payload of
\* the command, and none ends the scheduler loop or the publisher loop
\* before stop() asks them to end.
C27_NoFaultEscapes ==
    /\ ~last_cmd.escaped
    /\ sched_pc = "exited" => sched_stop_event
    /\ pub_pc = "exited" => stop_event

\* ------------- a Scheduler given tasks of any interval and then started

\* The Scheduler takes any interval: below the floor (0 stands for these:
\* the task is due on every pass), between floor and ceiling, above the
\* ceiling.
AnyIntervals == {0, 2, Seconds(1) + 10}

AddAnyTask ==
    /\ sched_pc = "none"
    /\ stop_pc = "none"
    /\ Len(tasks) < MaxTasks
    /\ \E iv \in AnyIntervals :
          add_task(ScheduledTask(Len(tasks) + 1, iv, AnyFn))
    /\ UNCHANGED <<lock_held, sched_stop_event, sched_pc, sched_i, sched_now,
                   next_delay, clock, running, last_done, stop_pc, bridgeVars>>

InitDelay ==
    /\ SchedInit
    /\ clock \in BootClocks
    /\ stop_pc = "none"
    /\ BridgeInit
    /\ loaded = EverySecond
    /\ extraction = NoExtraction
    /\ enabled = [d \in Range(DEFAULT_DEVICE_TYPES) |-> FALSE]

NextDelay ==
    \/ AddAnyTask
    \/ CallerStart
    \/ SchedLoop
    \/ AnyTask

SpecDelay == InitDelay /\ [][NextDelay]_vars

\* The pass over the tasks is complete: the loop is about to release the
\* lock and wait for next_delay.
PassOver == sched_pc = "pass" /\ sched_i > Len(tasks)

\* The remaining time of task i at the end of a pass: its interval when its
\* action ran in this pass (last_run is not before the pass's `now`), the
\* time from `now` to last_run + interval otherwise.
Remaining(i) ==
    IF tasks[i].last_run >= sched_now THEN tasks[i].interval
    ELSE tasks[i].last_run + tasks[i].interval - sched_now

\* C28: next_delay is never below the floor nor above the ceiling, and at
\* the end of a pass it is the least of the ceiling and of every task's
\* remaining time raised to the floor.
C28_NextDelay ==
    /\ Floor <= next_delay
    /\ next_delay <= Ceiling
    /\ PassOver =>
          /\ \A i \in DOMAIN tasks : next_delay <= Max(Remaining(i), Floor)
          /\ \/ next_delay = Ceiling
             \/ \E i \in DOMAIN tasks : next_delay = Max(Remaining(i), Floor)

\* A pass is complete in which the action of a task with an interval below
\* the floor ran while another task, with a longer interval, was not due: the
\* wait is the floor.
C28_Witness ==
    /\ PassOver
    /\ next_delay = Floor
    /\ \E i, j \in DOMAIN tasks :
          /\ tasks[i].interval < Floor
          /\ tasks[i].last_run >= sched_now
          /\ tasks[j].interval > Floor
          /\ tasks[j].last_run < sched_now
          /\ tasks[j].last_run > 0

\* The entries of a mapping status, each with its place in the status, the
\* characters of the key it goes by and its value: the entries of a
\* "Response" that is a mapping under their own keys, the entries of any
\* other field that is a mapping under parent_field, every other field
\* under its own key.
EntriesOf(status) ==
    LET items == status.items
        nested(i) == items[i].v.t = "dict"
    IN  {[at |-> <<i>>, chars |-> Spell(items[i].k), v |-> items[i].v] :
            i \in {n \in DOMAIN items : ~nested(n)}}
        \cup UNION {
              {[at |-> <<i, j>>,
                chars |-> IF items[i].k = "Response"
                          THEN Spell(items[i].v.items[j].k)
                          ELSE Spell(items[i].k) \o <<"_">>
                                 \o Spell(items[i].v.items[j].k),
                v |-> items[i].v.items[j].v] :
                 j \in DOMAIN items[i].v.items} :
              i \in {n \in DOMAIN items : nested(n)}}

\* Lower-casing and dropping what is not a letter or a digit, character by
\* character.
Normal(chars) ==
    LET low == [i \in DOMAIN chars |->
                  IF \E u \in DOMAIN UpperCase : UpperCase[u] = chars[i]
                  THEN LowerCase[CHOOSE u \in DOMAIN UpperCase :
                                    UpperCase[u] = chars[i]]
                  ELSE chars[i]]
        kept(ch) == ch \in Range(LowerCase) \cup Digits
    IN  SelectSeq(low, kept)

\* C29: the lookup built from a mapping status has exactly the keys that
\* are the normal forms of its entries' keys, each once, and holds under
\* each key the value of an entry with that key.
C29_LookupContents ==
    (extraction.done /\ extraction.status.t = "dict") =>
       LET lookup == _build_lookup(extraction.status)
           entries == EntriesOf(extraction.status)
       IN  /\ {lookup[i].k : i \in DOMAIN lookup}
                = {Normal(e.chars) : e \in entries}
           /\ \A i, j \in DOMAIN lookup : lookup[i].k = lookup[j].k => i = j
           /\ \A i \in DOMAIN lookup :
                 \E e \in entries :
                    Normal(e.chars) = lookup[i].k /\ e.v = lookup[i].v

\* Extraction ran on a status with a scalar field, a mapping field beside
\* "Response", and a "Response" holding two keys that differ in case and
\* punctuation only.
C29_Witness ==
    /\ extraction.done
    /\ extraction.status.t = "dict"
    /\ LET entries == EntriesOf(extraction.status)
           items == extraction.status.items
       IN  /\ \E e \in entries : Len(e.at) = 1
           /\ \E e \in entries :
                 Len(e.at) = 2 /\ items[e.at[1]].k /= "Response"
           /\ \E e, f \in entries :
                 /\ Len(e.at) = 2 /\ items[e.at[1]].k = "Response"
                 /\ Len(f.at) = 2 /\ f.at[1] = e.at[1]
                 /\ e.chars /= f.chars
                 /\ Normal(e.chars) = Normal(f.chars)

\* C30: no two entries of a mapping status go by the same normalized key.
C30_NoTies ==
    (extraction.done /\ extraction.status.t = "dict") =>
       \A e, f \in EntriesOf(extraction.status) :
          Normal(e.chars) = Normal(f.chars) => e.at = f.at

\* ------------------- the bridge polling the switch device and an image
\* ------------------- device, the status of each poll of the switch device
\* ------------------- and what was extracted from it observed

ReadonlyEntry(name) ==
    Dict(<<Item("Name", Str(name)), Item("Value", PyInt(1))>>)

WritableEntry == Dict(<<Item("Id", PyInt(7)), Item("TargetValue", None_)>>)

SwitchStatus(ro_list, rw_list) ==
    Dict(<<Item("Response",
                Dict(<<Item("Connected", Bool(TRUE)),
                       Item("ReadonlySwitches", List(ro_list)),
                       Item("WriteableSwitches", List(rw_list))>>))>>)

\* Answers of the switch status endpoint: one switch; three entries of which
\* the second is no object, and a writable switch; an HTTP error status.
SwitchAnswers ==
    {HttpBody(SwitchStatus(<<ReadonlyEntry("a")>>, <<>>)),
     HttpBody(SwitchStatus(<<ReadonlyEntry("a"), Str("x"), ReadonlyEntry("b")>>,
                           <<WritableEntry>>)),
     HttpError}

\* _poll_device("switch"), the status fetched and the result of
\* extract_state_values observed.
PollSwitch ==
    /\ sched_pc = "call"
    /\ tasks[sched_i].fn.kind = "_poll_device"
    /\ \E http \in SwitchAnswers, dur \in PollDurations :
          \E r \in {_poll_device(tasks[sched_i].fn.device, http,
                                  published_discovery_topics)} :
             /\ PollDeviceReturns(http, dur, r)
             /\ IF http.kind = "body"
                THEN \E e \in {extract_state_values(tasks[sched_i].fn.device,
                                                    http.body)} :
                        extraction' = [device |-> tasks[sched_i].fn.device,
                                       status |-> http.body,
                                       values |-> e.values,
                                       raised |-> e.raised,
                                       done |-> TRUE]
                ELSE UNCHANGED extraction
    /\ UNCHANGED <<last_outcome, executions, loaded>>

InitSwitch ==
    /\ SchedInit
    /\ clock = 0
    /\ stop_pc = "none"
    /\ BridgeInit
    /\ loaded = EverySecond
    /\ extraction = NoExtraction
    /\ enabled = [d \in Range(DEFAULT_DEVICE_TYPES) |->
                     d \in {"switch", "screenshot"}]

NextSwitch ==
    \/ StartUp
    \/ Publisher
    \/ SchedLoop
    \/ PollSwitch
    \/ PollImage

SpecSwitch == InitSwitch /\ [][NextSwitch]_vars

\* The two lists of a switch status: the kind in the synthesized names, the
\* key of the list in the response, the (suffix, key) pairs of an entry.
SwitchLists ==
    {<<"readonly", "ReadonlySwitches", ReadonlyFields>>,
     <<"writable", "WriteableSwitches", WritableFields>>}

\* The name synthesized for field `suffix` of the element at position
\* `pos` (from 1) of the list of kind `kind`.
Synthesized(kind, pos, suffix) ==
    kind \o "_switch_" \o ToString(pos - 1) \o "_" \o suffix

\* The value names of the switch device that no sensor definition names.
IsDynamic(name) ==
    \A d \in DOMAIN DEVICE_SENSORS("switch") :
       DEVICE_SENSORS("switch")[d].var /= name

\* C31: for the switch device, the object at position i of either switch
\* list of the response yields, for each of its fields, the value name
\* <kind>_switch_<i>_<field> with i its position in the list (from 0), and
\* every synthesized value name comes from such an element; the poll in
\* which a synthesized name is first met enqueues exactly one discovery
\* message for it and records its topic, and a poll that meets a name on
\* record enqueues none, the record never losing a topic.
C31_SwitchNames ==
    /\ [](extraction.done /\ ~extraction.raised =>
            LET resp == DictGet(extraction.status.items, "Response")
                list(l) == DictGet(resp.items, l[2]).elems
            IN  /\ \A l \in SwitchLists :
                      \A pos \in DOMAIN list(l) :
                         list(l)[pos].t = "dict" =>
                            \A f \in DOMAIN l[3] :
                               \E v \in DOMAIN extraction.values :
                                  /\ extraction.values[v].k
                                       = Synthesized(l[1], pos, l[3][f][1])
                                  /\ extraction.values[v].v
                                       = EntryGet(list(l)[pos], l[3][f][2])
                /\ \A v \in DOMAIN extraction.values :
                      IsDynamic(extraction.values[v].k) =>
                         \E l \in SwitchLists :
                            \E pos \in DOMAIN list(l), f \in DOMAIN l[3] :
                               /\ list(l)[pos].t = "dict"
                               /\ extraction.values[v].k
                                    = Synthesized(l[1], pos, l[3][f][1]))
    /\ [][/\ published_discovery_topics \subseteq published_discovery_topics'
          /\ put_count'["scheduler"] > put_count["scheduler"] =>
                \A v \in DOMAIN last_poll'.values :
                   LET name == last_poll'.values[v].k
                       topics == DiscoveryTopics("switch", name)
                       sent == {m \in Enqueued : m.topic \in topics}
                   IN  IsDynamic(name) =>
                          /\ topics \cap published_discovery_topics' /= {}
                          /\ Cardinality(sent)
                               = IF topics \cap published_discovery_topics = {}
                                 THEN 1 ELSE 0]_vars

\* A poll met the name of the first switch again and the name of the entry
\* at position 2 (the entry before it is no object) for the first time: it
\* enqueued a discovery message for the second and none for the first.
C31_Witness ==
    LET sent(name) == {i \in DOMAIN last_poll.msgs :
                         last_poll.msgs[i].topic
                            \in DiscoveryTopics("switch", name)}
    IN  /\ put_count["scheduler"] > Len(last_poll.msgs)
        /\ extraction.done
        /\ DictHas(last_poll.values, "readonly_switch_0_name")
        /\ DictHas(last_poll.values, "readonly_switch_2_name")
        /\ DictHas(last_poll.values, "writable_switch_0_targetvalue")
        /\ sent("readonly_switch_0_name") = {}
        /\ Cardinality(sent("readonly_switch_2_name")) = 1

\* C32: a command whose payload is a JSON object without an "action" field
\* enqueues no message on {base}/{device}/command_response, whatever the
\* device and whatever the device API answers.
C32_ActionRequired ==
    (/\ last_cmd /= NoCommand
     /\ WellFormed(last_cmd.payload)
     /\ ~DictHas(json_loads(last_cmd.payload).value.items, "action")) =>
       \A i \in DOMAIN last_cmd.msgs :
          last_cmd.msgs[i].topic
             /= STATE_TOPIC_TEMPLATE(base_topic, last_cmd.device,
                                     "command_response")

\* A message a poll enqueued for an entity: the state of a value name on
\* {base}/{device}/{value_name} or an image on {base}/{device}/image.
IsEntityMessage(m) ==
    /\ m.src = "scheduler"
    /\ Len(m.topic) = 3
    /\ m.topic[1] = base_topic
    /\ m.topic[3] /= "availability"

\* The discovery topic of the entity of such a message (on either platform
\* for a value name).
DiscoveryOf(m) ==
    IF m.topic[3] = "image"
    THEN {<<discovery_prefix, "camera", device_identifier(m.topic[2]), "config">>}
    ELSE DiscoveryTopics(m.topic[2], m.topic[3])

\* C33: a topic enters the record of announced discovery topics only in a
\* step that enqueues its discovery message, and when a poll enqueues the
\* state of a value name or an image, the discovery topic of that entity is
\* on record already or its discovery message is enqueued by the same poll
\* before the state: in the queue, discovery precedes state.
C33_DiscoveryFirst ==
    [][/\ \A t \in published_discovery_topics' \ published_discovery_topics :
             \E m \in Enqueued : m.topic = t
       /\ \A i \in DOMAIN publish_queue' :
             LET m == publish_queue'[i] IN
             (m \in Enqueued /\ IsEntityMessage(m)) =>
                \/ DiscoveryOf(m) \cap published_discovery_topics /= {}
                \/ \E j \in 1 .. i - 1 :
                      /\ publish_queue'[j] \in Enqueued
                      /\ publish_queue'[j].topic \in DiscoveryOf(m)]_vars

\* The queue holds, from one poll of the switch device, the discovery
\* message of a synthesized name and after it the state of that name, and
\* an image of the image device has been enqueued after start() announced it.
C33_Witness ==
    /\ \E i, j \in DOMAIN publish_queue :
          /\ i < j
          /\ publish_queue[i].src = "scheduler"
          /\ publish_queue[i].topic
               \in DiscoveryTopics("switch", "readonly_switch_2_name")
          /\ publish_queue[j].topic
               = STATE_TOPIC_TEMPLATE(base_topic, "switch",
                                      "readonly_switch_2_name")
    /\ \E i \in DOMAIN publish_queue :
          publish_queue[i].topic = IMAGE_TOPIC_TEMPLATE(base_topic, "screenshot")
    /\ <<discovery_prefix, "camera", device_identifier("screenshot"), "config">>
         \in published_discovery_topics

\* C34: once stop() has enqueued the "OFF" of an enabled device, no step
\* enqueues an availability "ON" for that device.
C34_OffIsLast ==
    [][\A d \in Range(EnabledDevices) :
          (\E k \in DOMAIN stop_puts : IsOff(stop_puts[k], d)) =>
             \A m \in Enqueued :
                ~(/\ m.topic = render_device_availability_topic(d)
                  /\ m.payload = Text("ON"))]_vars

\* C35: the scheduler's stop event is never cleared, and the loop looks at
\* it only between passes: once it is set no pass begins, so a task action
\* starts only in a pass that had begun before stop() was called, and a
\* thread created by a later start() exits without calling any task.
C35_StopIsSticky ==
    [][/\ sched_stop_event => sched_stop_event'
       /\ (sched_stop_event /\ sched_pc \notin {"pass", "call"}) =>
             /\ sched_pc' \notin {"pass", "call"}
             /\ running' = running
             /\ last_done' = last_done
       /\ (sched_stop_event /\ sched_pc = "check") =>
             sched_pc' \in {"check", "exited"}]_vars

\* stop() has returned, a start() after it has created a loop thread that
\* has made no pass yet, and a registered task is due.
C35_Witness ==
    /\ sched_stop_event
    /\ stop_pc = "none"
    /\ sched_pc = "check"
    /\ sched_i = 0
    /\ \E i \in DOMAIN tasks : tasks[i].last_run + tasks[i].interval <= clock

\* ------------- the Scheduler over unbounded time: time.monotonic() is read
\* ------------- relative to the present. The clock is held at Horizon and,
\* ------------- when time elapses, every recorded reading moves back by
\* ------------- the time elapsed, an age of Horizon or more being kept as
\* ------------- Horizon. Horizon is more than the longest interval of
\* ------------- Intervals and the longest pass together, so a task whose
\* ------------- last_run is that old is due, as it is in the code.

Horizon == Seconds(2)

\* A reading of time.monotonic() taken before `d` ticks elapsed.
Rebase(t, d) == Max(t - d, 0)

\* A loop that leaves the for loop after the first action it called.
TaskReturns_break(raised, dur) ==
    /\ sched_pc = "call"
    /\ clock' = clock
    /\ sched_now' = Rebase(sched_now, dur)
    /\ running' = running \ {sched_i}
    /\ tasks' = [i \in DOMAIN tasks |->
                   [tasks[i] EXCEPT !.last_run =
                       IF i = sched_i THEN clock ELSE Rebase(@, dur)]]
    /\ next_delay' = Min(next_delay, Max(tasks[sched_i].interval, Floor))
    /\ sched_i' = Len(tasks) + 1
    /\ sched_pc' = "pass"
    /\ last_done' = [task |-> sched_i, raised |-> raised,
                     begun |-> Rebase(clock, dur), ended |-> clock]
    /\ UNCHANGED <<lock_held, sched_stop_event>>

\* _safe_run returns `dur` ticks after the call, then
\* task.last_run = time.monotonic(), due_in = task.interval and the min().
TaskReturns(raised, dur) ==
    /\ sched_pc = "call"
    /\ clock' = clock
    /\ sched_now' = Rebase(sched_now, dur)
    /\ running' = running \ {sched_i}
    /\ tasks' = [i \in DOMAIN tasks |->
                   [tasks[i] EXCEPT !.last_run =
                       IF i = sched_i THEN clock ELSE Rebase(@, dur)]]
    /\ next_delay' = Min(next_delay, Max(tasks[sched_i].interval, Floor))
    /\ sched_i' = sched_i + 1
    /\ sched_pc' = "pass"
    /\ last_done' = [task |-> sched_i, raised |-> raised,
                     begun |-> Rebase(clock, dur), ended |-> clock]
    /\ UNCHANGED <<lock_held, sched_stop_event>>

\* self._stop_event.wait(timeout=next_delay) returns: at once when the
\* event is set, after next_delay otherwise.
WaitReturns ==
    /\ sched_pc = "wait"
    /\ \E d \in {IF sched_stop_event THEN 0 ELSE next_delay} :
          /\ sched_now' = Rebase(sched_now, d)
          /\ tasks' = [i \in DOMAIN tasks |->
                         [tasks[i] EXCEPT !.last_run = Rebase(@, d)]]
    /\ sched_pc' = "check"
    /\ UNCHANGED <<clock, lock_held, sched_stop_event, sched_i, next_delay,
                   running, last_done>>

\* The steps of the loop thread that take no time.
LivePass ==
    /\ LoopCheck \/ LoopTask \/ LoopRelease
    /\ UNCHANGED <<stop_pc, bridgeVars>>

LiveWait ==
    /\ WaitReturns
    /\ UNCHANGED <<stop_pc, bridgeVars>>

\* A task action of any kind that terminates: it returns or raises.
LiveTask ==
    /\ \E raised \in BOOLEAN, dur \in Durations : TaskReturns(raised, dur)
    /\ UNCHANGED <<stop_pc, bridgeVars>>

\* add_task before start(): the tasks are registered, then the loop runs.
RegisterTask ==
    /\ sched_pc = "none"
    /\ CallerAddTask

\* A Scheduler on which stop() is never called.
InitLive ==
    /\ SchedInit
    /\ clock = Horizon
    /\ stop_pc = "none"
    /\ BridgeInit
    /\ loaded = EverySecond
    /\ extraction = NoExtraction
    /\ enabled = [d \in Range(DEFAULT_DEVICE_TYPES) |-> FALSE]

NextLive ==
    \/ RegisterTask
    \/ CallerStart
    \/ LivePass
    \/ LiveWait
    \/ LiveTask

\* The loop thread is a thread of its own: it keeps taking its steps, its
\* wait ends after next_delay at the latest, and every task action
\* terminates. The thread is at one place at a time, so one fairness
\* condition on its steps together is fairness on each of them.
LiveLoop == LivePass \/ LiveWait \/ LiveTask

SpecLive == InitLive /\ [][NextLive]_vars /\ WF_vars(LiveLoop)

\* C36: when every task action terminates and stop() is never called, every
\* registered task of a started scheduler has its action called again and
\* again, whatever the intervals and the durations of the other tasks.
C36_NoStarvation ==
    \A i \in 1 .. MaxTasks :
       []((i \in DOMAIN tasks /\ ThreadAlive) =>
             <>(sched_pc = "call" /\ sched_i = i))

\* The action of the second task is called once more, after it has run
\* before, behind a first task of the shortest interval whose action took
\* the longest.
C36_Witness ==
    /\ Len(tasks) = MaxTasks
    /\ clock = Horizon
    /\ tasks[1].interval = 2
    /\ last_done.task = 1
    /\ last_done.ended - last_done.begun = 3
    /\ sched_pc = "call"
    /\ sched_i = MaxTasks
    /\ tasks[MaxTasks].last_run > 0

\* The registered tasks without their last_run stamps.
Registered == [i \in DOMAIN tasks |->
                 <<tasks[i].name, tasks[i].interval, tasks[i].fn>>]

\* C37: a poll of a device whose status request failed enqueues one
\* message, the device's availability "OFF" (retained, qos 1), and changes
\* nothing else of the bridge: no state message, the record of announced
\* discovery topics as it was, the registered tasks as they were.
C37_FailedPollFrame ==
    [][(/\ sched_pc = "call"
        /\ sched_pc' = "pass"
        /\ tasks[sched_i].fn.kind = "_poll_device"
        /\ last_poll'.failed) =>
          /\ publish_queue' =
                Append(publish_queue,
                       [topic |-> render_device_availability_topic(
                                     tasks[sched_i].fn.device),
                        payload |-> Text("OFF"), retain |-> TRUE, qos |-> 1,
                        src |-> "scheduler",
                        seq |-> put_count["scheduler"] + 1])
          /\ put_count' = [put_count EXCEPT !["scheduler"] = @ + 1]
          /\ published_discovery_topics' = published_discovery_topics
          /\ Registered' = Registered
          /\ UNCHANGED <<enabled, main_pc, stop_event, stop_pc, receiving,
                         stops, stop_puts, pubVars, cmdVars, sched_stop_event,
                         lock_held>>]_vars

\* A poll of the sequence device has failed after an earlier poll of it
\* announced its entities: the record is not empty and the "OFF" is the
\* message enqueued last.
C37_Witness ==
    /\ last_poll.device = "sequence"
    /\ last_poll.failed
    /\ \E t \in published_discovery_topics :
          t[3] = device_identifier("sequence")
    /\ publish_queue /= <<>>
    /\ IsOff(publish_queue[Len(publish_queue)], "sequence")
    /\ publish_queue[Len(publish_queue)].src = "scheduler"

\* ------------- the bridge shutting down while commands come in

\* A bridge with every device disabled: it polls nothing, and the command
\* handler, which does not look at the configuration, is its only producer
\* besides start() and stop().
InitDrain ==
    /\ SchedInit
    /\ clock = Seconds(3)
    /\ stop_pc = "none"
    /\ BridgeInit
    /\ loaded = EverySecond
    /\ extraction = NoExtraction
    /\ enabled = [d \in Range(DEFAULT_DEVICE_TYPES) |-> FALSE]

\* A command for the mount that the device API answers, well or not: the
\* handler enqueues a response or an error.
CommandDrain ==
    \E http \in CommandAnswers : HandleCommand("mount", Action("park"), http)

NextDrain ==
    \/ StartUp
    \/ Shutdown
    \/ Publisher
    \/ SchedLoop
    \/ CommandDrain

\* The publisher thread keeps taking its steps: get() returns after half a
\* second at the latest and MQTTClient.publish returns or raises. Nothing
\* is assumed of the other threads.
SpecDrain == InitDrain /\ [][NextDrain]_vars /\ WF_vars(Publisher)

====
